---- MODULE Spec2Model ----
(***************************************************************************)
(* Model of the Bedrock chat session of kubectl-ai (package gollm/bedrock): *)
(* the conversation history kept by bedrockChatSession, its Send and       *)
(* SendStreaming operations, and the streaming iterator that aggregates    *)
(* the ConverseStream events into response units.  req is the input of the *)
(* backend invocation of the last call, nc the chat of the Nirmata         *)
(* provider (package gollm), and app the last call of an operation other   *)
(* than Send and SendStreaming.  client is the BedrockClient the session   *)
(* was started from, and other the second session started from it, if     *)
(* any, with its iterator.                                                 *)
(* In SpecSlots stream holds the iterator of bedrockChat.SendStreaming,    *)
(* the variant that keeps the partial tool calls in a map.                 *)
(***************************************************************************)
EXTENDS Integers, Sequences, FiniteSets, TLC

VARIABLES cs, stream, last, ops, req, nc, app, client, other

vars == <<cs, stream, last, ops, req, nc, app, client, other>>

(***************************************************************************)
(* Bounds of the model.                                                    *)
(***************************************************************************)
MaxOps == 2            \* Send/SendStreaming calls per session in Spec
MaxContents == 2       \* length of the variadic contents of one call
MaxReplyBlocks == 2    \* content blocks of one Converse reply
MaxSessEvents == 2     \* events of one stream in Spec
MaxEvents == 4         \* events of one stream in SpecStream
MaxChunks == 2         \* lines of one response body in SpecNirmata
MaxDefs == 2           \* function definitions of one SetFunctionDefinitions call
MaxItems == 3          \* items of one call of convertContentsToMessage
MaxMsgs == 2           \* messages of one call of Initialize
MaxRuns == 2           \* runs of one iterator

(***************************************************************************)
(* Content model.                                                          *)
(***************************************************************************)
NoArgs == {}

\* types.ContentBlockMemberText
TextBlock(s) ==
  [kind |-> "text", text |-> s, id |-> "", name |-> "", args |-> NoArgs]

\* types.ContentBlockMemberToolUse
ToolUseBlock(id, name, args) ==
  [kind |-> "toolUse", text |-> "", id |-> id, name |-> name, args |-> args]

\* types.ContentBlockMemberToolUse whose ToolUseId is nil: parseConverseOutput
\* leaves the ID of the tool call at the zero value ""
ToolUseBlockNoId(name, args) == ToolUseBlock("", name, args)

\* types.ContentBlockMemberToolResult
ToolResultBlock(id) ==
  [kind |-> "toolResult", text |-> "", id |-> id, name |-> "", args |-> NoArgs]

\* a content block of a kind parseConverseOutput does not know
OtherBlock ==
  [kind |-> "other", text |-> "", id |-> "", name |-> "", args |-> NoArgs]

\* types.Message
Message(role, blocks) == [role |-> role, content |-> blocks]

\* gollm.FunctionCall
FunctionCall(id, name, args) == [id |-> id, name |-> name, args |-> args]

\* the variadic contents of Send: a string, a gollm.FunctionCallResult, or
\* a value of any other type
StringItem(s) == [kind |-> "string", text |-> s, id |-> ""]
ResultItem(id) == [kind |-> "result", text |-> "", id |-> id]
OtherItem == [kind |-> "other", text |-> "", id |-> ""]

Items == {StringItem(""), StringItem("hi"), ResultItem("t0"), OtherItem}

SeqsUpTo(S, n) == UNION {[1..k -> S] : k \in 0..n}

ContentLists == SeqsUpTo(Items, MaxContents)

\* strings.Join(parts, sep)
RECURSIVE Join(_, _)
Join(parts, sep) ==
  IF Len(parts) = 0 THEN ""
  ELSE IF Len(parts) = 1 THEN parts[1]
  ELSE parts[1] \o sep \o Join(Tail(parts), sep)

(***************************************************************************)
(* Models.                                                                 *)
(***************************************************************************)
DefaultModel == "us.anthropic.claude-sonnet-4-20250514-v1:0"

SupportedModels ==
  { "us.anthropic.claude-sonnet-4-20250514-v1:0",
    "us.anthropic.claude-3-7-sonnet-20250219-v1:0",
    "us.amazon.nova-pro-v1:0",
    "us.amazon.nova-lite-v1:0",
    "us.amazon.nova-micro-v1:0" }

isModelSupported(model) == model # "" /\ model \in SupportedModels

\* BedrockClient.StartChat
StartChat(optionsModel, model) ==
  LET selectedModel == IF model = "" THEN optionsModel ELSE model
  IN  [ model |-> IF isModelSupported(selectedModel) THEN selectedModel
                  ELSE optionsModel,
        history |-> <<>>,
        functionDefs |-> <<>> ]

(***************************************************************************)
(* History helpers of bedrockChatSession.                                  *)
(***************************************************************************)
addMessage(history, role, contentBlocks) ==
  IF Len(contentBlocks) = 0 THEN history
  ELSE Append(history, Message(role, contentBlocks))

\* addTextMessage without its test of the content
addTextMessageUnguarded(history, role, content) ==
  addMessage(history, role, <<TextBlock(content)>>)

addTextMessage(history, role, content) ==
  IF content = "" THEN history
  ELSE addMessage(history, role, <<TextBlock(content)>>)

RECURSIVE addToolResultsEach(_, _)
\* addToolResults storing one user message for each tool result
addToolResultsEach(history, toolResults) ==
  IF Len(toolResults) = 0 THEN history
  ELSE addToolResultsEach(addMessage(history, "user", <<Head(toolResults)>>),
                          Tail(toolResults))

addToolResults(history, toolResults) ==
  IF Len(toolResults) > 0 THEN addMessage(history, "user", toolResults)
  ELSE history

removeLastMessage(history) ==
  IF Len(history) > 0 THEN SubSeq(history, 1, Len(history) - 1)
  ELSE history

createToolUseBlock(toolCall) ==
  ToolUseBlock(toolCall.id, toolCall.name,
               IF Cardinality(toolCall.args) > 0 THEN toolCall.args ELSE NoArgs)

RECURSIVE ToolUseBlocks(_)
ToolUseBlocks(toolCalls) ==
  IF Len(toolCalls) = 0 THEN <<>>
  ELSE <<createToolUseBlock(Head(toolCalls))>> \o ToolUseBlocks(Tail(toolCalls))

\* the loop of processContents: the strings and the tool results collected
\* from contents[i..], or the error of the first element of another type
RECURSIVE ScanContents(_, _, _, _)
ScanContents(contents, i, messages, toolResults) ==
  IF i > Len(contents)
  THEN [err |-> "none", messages |-> messages, toolResults |-> toolResults]
  ELSE IF contents[i].kind = "string"
  THEN ScanContents(contents, i + 1, Append(messages, contents[i].text), toolResults)
  ELSE IF contents[i].kind = "result"
  THEN ScanContents(contents, i + 1, messages,
                    Append(toolResults, ToolResultBlock(contents[i].id)))
  ELSE [err |-> "unsupportedContent", messages |-> messages,
        toolResults |-> toolResults]

\* processContents adding the tool results to the history as the loop meets
\* them, before the checks
processContentsEager(history, contents) ==
  LET scan == ScanContents(contents, 1, <<>>, <<>>)
      h == addToolResults(history, scan.toolResults)
  IN  IF scan.err # "none"
      THEN [err |-> scan.err, userMessage |-> "", history |-> h]
      ELSE IF Len(scan.messages) > 0 /\ Len(scan.toolResults) > 0
      THEN [err |-> "mixed", userMessage |-> "", history |-> h]
      ELSE IF Len(scan.toolResults) > 0
      THEN [err |-> "none", userMessage |-> "", history |-> h]
      ELSE IF Len(scan.messages) = 0
      THEN [err |-> "noValid", userMessage |-> "", history |-> history]
      ELSE [err |-> "none", userMessage |-> Join(scan.messages, "\n"),
            history |-> history]

\* bedrockChatSession.processContents: the error, the user text and the
\* history it leaves
processContents(history, contents) ==
  LET scan == ScanContents(contents, 1, <<>>, <<>>)
  IN  IF scan.err # "none"
      THEN [err |-> scan.err, userMessage |-> "", history |-> history]
      ELSE IF Len(scan.messages) > 0 /\ Len(scan.toolResults) > 0
      THEN [err |-> "mixed", userMessage |-> "", history |-> history]
      ELSE IF Len(scan.toolResults) > 0
      THEN [err |-> "none", userMessage |-> "",
            history |-> addToolResults(history, scan.toolResults)]
      ELSE IF Len(scan.messages) = 0
      THEN [err |-> "noValid", userMessage |-> "", history |-> history]
      ELSE [err |-> "none", userMessage |-> Join(scan.messages, "\n"),
            history |-> history]

(***************************************************************************)
(* The Converse reply and its parsing.                                     *)
(***************************************************************************)
ReplyBlocks == {TextBlock("a"), ToolUseBlock("t0", "kubectl", {"a"}), OtherBlock}

\* a *types.TokenUsage: <<>> when nil, its counts *int32
NoUsage == <<>>
SomeUsage == <<[inputTokens |-> <<5>>, outputTokens |-> <<2>>, totalTokens |-> <<7>>]>>

\* the outcomes of runtimeClient.Converse: an error, an output that is not a
\* message, or a message of content blocks; usage is the Usage of the output
Reply(err, isMessage, content, usage) ==
  [err |-> err, isMessage |-> isMessage, content |-> content, usage |-> usage]

Replies ==
  {Reply(TRUE, FALSE, <<>>, NoUsage), Reply(FALSE, FALSE, <<>>, SomeUsage)}
  \cup {Reply(FALSE, TRUE, c, SomeUsage) :
          c \in SeqsUpTo(ReplyBlocks, MaxReplyBlocks)}

RECURSIVE TextParts(_)
TextParts(blocks) ==
  IF Len(blocks) = 0 THEN <<>>
  ELSE (IF Head(blocks).kind = "text" THEN <<Head(blocks).text>> ELSE <<>>)
       \o TextParts(Tail(blocks))

RECURSIVE ToolCallsOf(_)
ToolCallsOf(blocks) ==
  IF Len(blocks) = 0 THEN <<>>
  ELSE (IF Head(blocks).kind = "toolUse"
        THEN <<FunctionCall(Head(blocks).id, Head(blocks).name, Head(blocks).args)>>
        ELSE <<>>)
       \o ToolCallsOf(Tail(blocks))

\* bedrockChatSession.parseConverseOutput
parseConverseOutput(output) ==
  IF output.isMessage
  THEN IF Len(output.content) > 0
       THEN [content |-> Join(TextParts(output.content), "\n"),
             toolCalls |-> ToolCallsOf(output.content)]
       ELSE [content |-> "", toolCalls |-> <<>>]
  ELSE [content |-> "Error: Unable to parse response", toolCalls |-> <<>>]

addAssistantResponse(history, response) ==
  LET contentBlocks ==
        (IF response.content # "" THEN <<TextBlock(response.content)>> ELSE <<>>)
        \o ToolUseBlocks(response.toolCalls)
  IN  IF Len(contentBlocks) > 0
      THEN addMessage(history, "assistant", contentBlocks)
      ELSE history

(***************************************************************************)
(* The record of the last call: its error, whether the backend was         *)
(* invoked, and the history before the call.                               *)
(***************************************************************************)
NoLast ==
  [op |-> "none", err |-> "none", invoked |-> FALSE, before |-> <<>>,
   contents |-> <<>>]

Returned(op, err, invoked, before, contents) ==
  [op |-> op, err |-> err, invoked |-> invoked, before |-> before,
   contents |-> contents]

(***************************************************************************)
(* Usage.  The payload handed to convertAWSUsage is an any: the nil        *)
(* interface, a *types.TokenUsage (possibly a nil pointer), or a value of  *)
(* another type.  A count of a TokenUsage is a *int32: <<>> when nil.      *)
(***************************************************************************)
NilPayload ==
  [kind |-> "nil", isNilPtr |-> FALSE, inputTokens |-> <<>>,
   outputTokens |-> <<>>, totalTokens |-> <<>>]

\* a (*types.TokenUsage)(nil) held by the interface
NilTokenUsage ==
  [kind |-> "tokenUsage", isNilPtr |-> TRUE, inputTokens |-> <<>>,
   outputTokens |-> <<>>, totalTokens |-> <<>>]

TokenUsage(inputTokens, outputTokens, totalTokens) ==
  [kind |-> "tokenUsage", isNilPtr |-> FALSE, inputTokens |-> inputTokens,
   outputTokens |-> outputTokens, totalTokens |-> totalTokens]

\* a value of a type that is not *types.TokenUsage: a string, a TokenUsage
\* that is not behind a pointer
OtherPayload(kind) ==
  [kind |-> kind, isNilPtr |-> FALSE, inputTokens |-> <<>>,
   outputTokens |-> <<>>, totalTokens |-> <<>>]

\* aws.ToInt32
ToInt32(p) == IF Len(p) = 0 THEN 0 ELSE p[1]

\* the outcomes of a call: the nil *gollm.Usage, a Usage, the raw payload,
\* or the panic of a nil pointer dereference
NilUsage == [outcome |-> "nil", usage |-> <<>>, raw |-> <<>>]
Panic == [outcome |-> "panic", usage |-> <<>>, raw |-> <<>>]
Usage(inputTokens, outputTokens, totalTokens, model, provider) ==
  [outcome |-> "usage",
   usage |-> <<[inputTokens |-> inputTokens, outputTokens |-> outputTokens,
                totalTokens |-> totalTokens, model |-> model,
                provider |-> provider]>>,
   raw |-> <<>>]
RawUsage(payload) == [outcome |-> "raw", usage |-> <<>>, raw |-> <<payload>>]

\* convertAWSUsage: the interface holding a nil pointer is not nil, the type
\* assertion succeeds, and reading the fields dereferences the nil pointer
convertAWSUsage(awsUsage, model, provider) ==
  IF awsUsage.kind = "nil" THEN NilUsage
  ELSE IF awsUsage.kind = "tokenUsage"
  THEN IF awsUsage.isNilPtr THEN Panic
       ELSE Usage(ToInt32(awsUsage.inputTokens), ToInt32(awsUsage.outputTokens),
                  ToInt32(awsUsage.totalTokens), model, provider)
  ELSE NilUsage

\* the any holding a *types.TokenUsage: response.usage = output.Usage and
\* usage = e.Value.Usage
toAny(tokenUsage) ==
  IF Len(tokenUsage) = 0 THEN NilTokenUsage
  ELSE TokenUsage(tokenUsage[1].inputTokens, tokenUsage[1].outputTokens,
                  tokenUsage[1].totalTokens)

\* BedrockClient: whether clientOpts.UsageCallback is set, and the calls
\* made to it so far
BedrockClient(usageCallback) == [usageCallback |-> usageCallback, calls |-> <<>>]

\* a call of the UsageCallback: its arguments, the number of the event the
\* iterator was processing (0 in Send), and the number of units the iterator
\* had delivered when the call was made
Invocation(provider, model, usage, event, delivered) ==
  [provider |-> provider, model |-> model, usage |-> usage, event |-> event,
   delivered |-> delivered]

\* the callback step of Send and of the Metadata case: the calls made, or
\* the panic of the conversion
UsageCallback(c, awsUsage, model, event, delivered) ==
  IF ~c.usageCallback THEN [panic |-> FALSE, calls |-> <<>>]
  ELSE LET structuredUsage == convertAWSUsage(awsUsage, model, "bedrock")
       IN  IF structuredUsage.outcome = "panic"
           THEN [panic |-> TRUE, calls |-> <<>>]
           ELSE IF structuredUsage.outcome = "usage"
           THEN [panic |-> FALSE,
                 calls |-> <<Invocation("bedrock", model, structuredUsage.usage[1],
                                        event, delivered)>>]
           ELSE [panic |-> FALSE, calls |-> <<>>]

\* bedrockChatResponse.UsageMetadata and
\* simpleBedrockCompletionResponse.UsageMetadata: r holds usage, model and
\* provider
UsageMetadata(r) ==
  LET model == IF r.model = "" THEN "bedrock" ELSE r.model
      provider == IF r.provider = "" THEN "bedrock" ELSE r.provider
      structuredUsage == convertAWSUsage(r.usage, model, provider)
  IN  IF structuredUsage.outcome = "panic" THEN Panic
      ELSE IF structuredUsage.outcome # "nil" THEN structuredUsage
      ELSE RawUsage(r.usage)

(***************************************************************************)
(* The ConverseStream events.  The text of tool-call arguments is a        *)
(* sequence of JSON tokens: "{" and "}", the members "a" and "b" (each one *)
(* key with its value) and the number "1".  A fragment is a piece of such  *)
(* a text, and concatenating fragments is concatenating the sequences.     *)
(***************************************************************************)
Members == {"a", "b"}

\* json.Unmarshal of an argument text into an any, followed by the type
\* assertion to map[string]any: ok is the success of the parse, isMap that
\* of the assertion, and args the members of the object
ParseJSON(text) ==
  IF text = <<"{", "}">>
  THEN [ok |-> TRUE, isMap |-> TRUE, args |-> NoArgs]
  ELSE IF Len(text) = 3 /\ text[1] = "{" /\ text[2] \in Members /\ text[3] = "}"
  THEN [ok |-> TRUE, isMap |-> TRUE, args |-> {text[2]}]
  ELSE IF Len(text) > 0 /\ \A i \in 1..Len(text) : text[i] = "1"
  THEN [ok |-> TRUE, isMap |-> FALSE, args |-> NoArgs]
  ELSE [ok |-> FALSE, isMap |-> FALSE, args |-> NoArgs]

\* the argument fragments the backend sends for a slot: an object cut in two
\* for slot 0, a whole object for slot 1
Fragments(i) ==
  IF i = 0 THEN { <<"{">>, <<"a", "}">> } ELSE { <<"{", "b", "}">> }

ToolSlots == {0, 1}
TextSlot == 2
ToolId(i) == IF i = 0 THEN "t0" ELSE "t1"
ToolName(i) == IF i = 0 THEN "kubectl" ELSE "bash"

Ev(type, idx, kind, id, name, text, frag, usage) ==
  [type |-> type, idx |-> idx, kind |-> kind, id |-> id, name |-> name,
   text |-> text, frag |-> frag, usage |-> usage]

\* ContentBlockStart whose Start is a ContentBlockStartMemberToolUse
ToolStartEv(i) ==
  Ev("ContentBlockStart", i, "toolUse", ToolId(i), ToolName(i), "", <<>>, NoUsage)
\* ContentBlockStart of a tool use whose ToolUseId is nil: the ID of the
\* current tool call keeps the zero value ""
ToolStartNoIdEv(i) ==
  Ev("ContentBlockStart", i, "toolUse", "", ToolName(i), "", <<>>, NoUsage)
\* ContentBlockStart of a block that is not a tool use
TextStartEv == Ev("ContentBlockStart", TextSlot, "text", "", "", "", <<>>, NoUsage)
TextDeltaEv(s) == Ev("ContentBlockDelta", TextSlot, "text", "", "", s, <<>>, NoUsage)
ToolDeltaEv(i, f) == Ev("ContentBlockDelta", i, "toolUse", "", "", "", f, NoUsage)
StopEv(i) == Ev("ContentBlockStop", i, "", "", "", "", <<>>, NoUsage)
MessageStopEv == Ev("MessageStop", 0, "", "", "", "", <<>>, NoUsage)
MetadataEv(u) == Ev("Metadata", 0, "", "", "", "", <<>>, u)
UnknownEv == Ev("Unknown", 0, "", "", "", "", <<>>, NoUsage)

Texts == {"", "x", "y"}

AllEvents ==
  {MessageStopEv, UnknownEv, MetadataEv(SomeUsage)}
  \cup {ToolStartEv(i) : i \in ToolSlots}
  \cup {TextDeltaEv(s) : s \in Texts}
  \cup UNION {{ToolDeltaEv(i, f) : f \in Fragments(i)} : i \in ToolSlots}
  \cup {StopEv(i) : i \in ToolSlots \cup {TextSlot}}

SessEvents ==
  {TextStartEv, TextDeltaEv("x"), ToolStartEv(0), StopEv(0), MessageStopEv,
   MetadataEv(NoUsage), MetadataEv(SomeUsage)}

(***************************************************************************)
(* The streaming iterator of createStreamingIterator.  events and units    *)
(* record the events consumed and the units yielded so far; before and     *)
(* start are the history before the SendStreaming call and at its return.  *)
(***************************************************************************)
NoStream ==
  [status |-> "none", fullContent |-> "", usage |-> NoUsage,
   currentToolCall |-> <<>>, collectedToolCalls |-> <<>>,
   events |-> <<>>, units |-> <<>>, closed |-> 0,
   before |-> <<>>, start |-> <<>>]

NewStream(before, start) ==
  [NoStream EXCEPT !.status = "active", !.before = before, !.start = start]

\* a bedrockChatResponse, or the error, handed to yield while the event
\* number src is processed
Unit(err, content, toolCalls, usage, src) ==
  [err |-> err, content |-> content, toolCalls |-> toolCalls, usage |-> usage,
   src |-> src]

\* yield(unit): the unit is delivered; when the caller answers false the
\* iterator returns and the deferred Close runs
Yield(s, unit, cont) ==
  [s EXCEPT !.units = Append(@, unit),
            !.status = IF cont THEN @ ELSE "stopped",
            !.closed = IF cont THEN @ ELSE @ + 1]

\* case ContentBlockStart: a tool-use start replaces the current tool call
OnContentBlockStart(s, e) ==
  IF e.kind = "toolUse"
  THEN [s EXCEPT !.currentToolCall = <<FunctionCall(e.id, e.name, NoArgs)>>]
  ELSE s

\* case ContentBlockDelta, text delta: the text is kept and yielded
OnTextDelta(s, e, cont) ==
  Yield([s EXCEPT !.fullContent = @ \o e.text],
        Unit(FALSE, e.text, <<>>, NoUsage, Len(s.events)), cont)

\* case ContentBlockDelta, tool-use delta: the fragment alone is parsed, and
\* replaces the arguments when it is a JSON object
OnToolDelta(s, e) ==
  LET parsed == ParseJSON(e.frag)
  IN  IF parsed.ok /\ parsed.isMap
      THEN [s EXCEPT !.currentToolCall[1].args = parsed.args]
      ELSE s

\* the ContentBlockStop case without the reset of the current tool call
OnContentBlockStopKeep(s, cont) ==
  IF Len(s.currentToolCall) > 0
  THEN Yield([s EXCEPT !.collectedToolCalls = Append(@, s.currentToolCall[1])],
             Unit(FALSE, "", s.currentToolCall, NoUsage, Len(s.events)), cont)
  ELSE s

\* case ContentBlockStop: the current tool call, if any, is collected and
\* yielded, and reset once the caller has taken it
OnContentBlockStop(s, cont) ==
  IF Len(s.currentToolCall) > 0
  THEN LET y == Yield([s EXCEPT !.collectedToolCalls =
                         Append(@, s.currentToolCall[1])],
                      Unit(FALSE, "", s.currentToolCall, NoUsage, Len(s.events)),
                      cont)
       IN  IF cont THEN [y EXCEPT !.currentToolCall = <<>>] ELSE y
  ELSE s

\* case MessageStop: the text and the tool calls are added to the history
OnMessageStop(history, s) ==
  LET h1 == IF Len(s.fullContent) > 0
            THEN addTextMessage(history, "assistant", s.fullContent)
            ELSE history
  IN  IF Len(s.collectedToolCalls) > 0
      THEN addMessage(h1, "assistant", ToolUseBlocks(s.collectedToolCalls))
      ELSE h1

\* the Metadata case with the callback made once the unit is delivered
OnMetadataYieldFirst(c, model, s, e, cont) ==
  IF Len(e.usage) > 0
  THEN [stream |-> Yield([s EXCEPT !.usage = e.usage],
                         Unit(FALSE, "", <<>>, e.usage, Len(s.events)), cont),
        calls |-> UsageCallback(c, toAny(e.usage), model, Len(s.events),
                               Len(s.units) + 1).calls]
  ELSE [stream |-> s, calls |-> <<>>]

\* case Metadata: the usage, when present, is handed to the callback and
\* then yielded; the pointer is not nil, and its conversion does not panic
OnMetadata(c, model, s, e, cont) ==
  IF Len(e.usage) > 0
  THEN [stream |-> Yield([s EXCEPT !.usage = e.usage],
                         Unit(FALSE, "", <<>>, e.usage, Len(s.events)), cont),
        calls |-> UsageCallback(c, toAny(e.usage), model, Len(s.events),
                               Len(s.units)).calls]
  ELSE [stream |-> s, calls |-> <<>>]

\* one iteration of the loop over the events: the iterator and the history
\* after event e, and the calls of the callback of client c, the caller
\* answering cont to a yield
OnEvent(c, model, s0, history, e, cont) ==
  LET s == [s0 EXCEPT !.events = Append(@, e)]
      step(st, h) == [stream |-> st, history |-> h, calls |-> <<>>]
  IN  CASE e.type = "ContentBlockStart" -> step(OnContentBlockStart(s, e), history)
        [] e.type = "ContentBlockDelta" ->
             IF e.kind = "text" THEN step(OnTextDelta(s, e, cont), history)
             ELSE IF e.kind = "toolUse" /\ Len(s.currentToolCall) > 0
             THEN step(OnToolDelta(s, e), history)
             ELSE step(s, history)
        [] e.type = "ContentBlockStop" -> step(OnContentBlockStop(s, cont), history)
        [] e.type = "MessageStop" -> step(s, OnMessageStop(history, s))
        [] e.type = "Metadata" ->
             LET m == OnMetadata(c, model, s, e, cont)
             IN  [stream |-> m.stream, history |-> history, calls |-> m.calls]
        [] OTHER -> step(s, history)

(***************************************************************************)
(* The input of a backend invocation.  A function definition is a record,  *)
(* the nil pointer being the record whose isNil is set; the nil slice and  *)
(* the empty slice of definitions have the same length and elements, and   *)
(* are both the empty sequence.                                            *)
(***************************************************************************)
NilDef == [isNil |-> TRUE, name |-> ""]
FunctionDefinition(name) == [isNil |-> FALSE, name |-> name]

\* bedrockChatSession.buildTools: one tool for each definition that is not nil
RECURSIVE buildTools(_)
buildTools(functionDefs) ==
  IF Len(functionDefs) = 0 THEN <<>>
  ELSE (IF Head(functionDefs).isNil THEN <<>> ELSE <<Head(functionDefs).name>>)
       \o buildTools(Tail(functionDefs))

\* no backend invocation
NoRequest == <<>>

\* bedrockChatSession.buildConverseInput: toolConfig is the ToolConfig
\* pointer, <<>> when nil
buildConverseInput(session) ==
  LET tools == buildTools(session.functionDefs)
  IN  [ modelId |-> session.model,
        messages |-> session.history,
        toolConfig |-> IF Len(session.functionDefs) > 0 /\ Len(tools) > 0
                       THEN <<tools>> ELSE <<>> ]

\* bedrockChatSession.buildConverseStreamInput
buildConverseStreamInput(session) ==
  LET tools == buildTools(session.functionDefs)
  IN  [ modelId |-> session.model,
        messages |-> session.history,
        toolConfig |-> IF Len(session.functionDefs) > 0 /\ Len(tools) > 0
                       THEN <<tools>> ELSE <<>> ]

\* SetFunctionDefinitions adding the definitions to those of the session
SetFunctionDefinitionsAppend(session, defs) ==
  [session EXCEPT !.functionDefs = @ \o defs]

\* bedrockChatSession.SetFunctionDefinitions: the session after the call,
\* which returns no error
SetFunctionDefinitions(session, defs) == [session EXCEPT !.functionDefs = defs]

(***************************************************************************)
(* The chat of the Nirmata provider (nirmataChat).  A message is a role    *)
(* and a text.  An item of the contents of a call is a string, a           *)
(* *api.Message with its type and payload, or a value of another type;     *)
(* formatted is what fmt prints for the item with the verb v.  A payload   *)
(* is <<>> when nil, and otherwise a string or a value of another type     *)
(* with the text fmt prints for it.                                        *)
(***************************************************************************)
nirmataMessage(role, content) == [role |-> role, content |-> content]

NPayload(isString, text) == <<[isString |-> isString, text |-> text]>>
NilNPayload == <<>>

NString(s) == [kind |-> "string", type |-> "", payload |-> NilNPayload, formatted |-> s]
NMessage(type, payload) ==
  [kind |-> "message", type |-> type, payload |-> payload,
   formatted |-> "&{" \o type \o "}"]
NTextMessage(s) == NMessage("text", NPayload(TRUE, s))
NOtherMessage == NMessage("tool-call-request", NPayload(FALSE, "map[]"))
NValue(formatted) ==
  [kind |-> "value", type |-> "", payload |-> NilNPayload, formatted |-> formatted]

NItems == {NString("hi"), NString(""), NTextMessage("m"), NOtherMessage, NValue("42")}

NContentLists == SeqsUpTo(NItems, MaxContents)

\* what the switch of convertContentsToMessage writes for one item
Rendering(item) ==
  IF item.kind = "string" THEN item.formatted
  ELSE IF item.kind = "message"
  THEN IF item.type = "text" /\ Len(item.payload) > 0
       THEN item.payload[1].text
       ELSE ""
  ELSE item.formatted

\* the loop of convertContentsToMessage without the separator before an
\* item that writes nothing
RECURSIVE RenderContentsSkipEmpty(_, _)
RenderContentsSkipEmpty(contents, n) ==
  IF n = 0 THEN ""
  ELSE RenderContentsSkipEmpty(contents, n - 1)
       \o (IF n > 1 /\ Rendering(contents[n]) # "" THEN " " ELSE "")
       \o Rendering(contents[n])

\* contentStr after the first n items of contents
RECURSIVE RenderContents(_, _)
RenderContents(contents, n) ==
  IF n = 0 THEN ""
  ELSE RenderContents(contents, n - 1) \o (IF n > 1 THEN " " ELSE "")
       \o Rendering(contents[n])

\* nirmataChat.convertContentsToMessage
convertContentsToMessage(contents) ==
  nirmataMessage("user", RenderContents(contents, Len(contents)))

\* the iterator SendStreaming returns: lines are the lines of the body
\* scanned so far, units the responses and the error yielded so far, closed
\* counts the calls of httpResp.Body.Close, start is the history at the
\* return of SendStreaming
NoNirmataStream ==
  [status |-> "none", fullContent |-> "", lines |-> <<>>, units |-> <<>>,
   closed |-> 0, start |-> <<>>]

\* the last call of Send or SendStreaming: the error returned, the APIError
\* it is when the status is not 200, the history before the call and the
\* messages of the request
NirmataCall(op, err, apiError, before, request) ==
  [op |-> op, err |-> err, apiError |-> apiError, before |-> before,
   request |-> request]

NoNirmataCall == NirmataCall("none", "none", <<>>, <<>>, <<>>)

\* NirmataClient.StartChat
NirmataStartChat(systemPrompt) ==
  [ systemPrompt |-> systemPrompt,
    history |-> IF systemPrompt # ""
                THEN <<nirmataMessage("system", systemPrompt)>> ELSE <<>>,
    iter |-> NoNirmataStream,
    last |-> NoNirmataCall ]

NoChat == NirmataStartChat("")

\* an *api.Message handed to Initialize
ApiMessage(source, type, payload) ==
  [source |-> source, type |-> type, payload |-> payload]

\* the loop of Initialize over the messages from number i on
RECURSIVE InitializeFrom(_, _, _)
InitializeFrom(messages, history, i) ==
  IF i > Len(history) THEN messages
  ELSE
    LET msg == history[i]
        role == IF msg.source = "user" THEN "user" ELSE "assistant"
    IN  IF msg.source \notin {"user", "model", "agent"}
        THEN InitializeFrom(messages, history, i + 1)
        ELSE IF ~(msg.type = "text" /\ Len(msg.payload) > 0)
        THEN InitializeFrom(messages, history, i + 1)
        ELSE IF msg.payload[1].text = ""
        THEN InitializeFrom(messages, history, i + 1)
        ELSE InitializeFrom(Append(messages, nirmataMessage(role, msg.payload[1].text)),
                            history, i + 1)

\* Initialize that keeps the messages the chat holds
InitializeKeep(chat, history) ==
  [chat EXCEPT !.history = InitializeFrom(@, history, 1)]

\* Initialize without the message of the system prompt
InitializeNoPrompt(chat, history) ==
  [chat EXCEPT !.history = InitializeFrom(<<>>, history, 1)]

\* nirmataChat.Initialize
Initialize(chat, history) ==
  [chat EXCEPT
     !.history =
        InitializeFrom(IF chat.systemPrompt # ""
                       THEN <<nirmataMessage("system", chat.systemPrompt)>>
                       ELSE <<>>,
                       history, 1)]

\* the outcomes of the HTTP exchange: an error of httpClient.Do, or a
\* response with its status and, for Send, whether its body decodes
StatusOK == 200

Exchange(transportErr, statusCode, decodes) ==
  [transportErr |-> transportErr, statusCode |-> statusCode, decodes |-> decodes]

HTTPOutcomes ==
  {Exchange(TRUE, 0, FALSE), Exchange(FALSE, StatusOK, TRUE),
   Exchange(FALSE, StatusOK, FALSE), Exchange(FALSE, 401, FALSE),
   Exchange(FALSE, 500, FALSE)}

\* fmt.Sprintf("%d", statusCode)
FormatStatus(statusCode) ==
  CASE statusCode = 200 -> "200"
    [] statusCode = 401 -> "401"
    [] statusCode = 500 -> "500"
    [] OTHER -> "0"

\* &APIError{StatusCode, Message}
APIError(statusCode) ==
  <<[statusCode |-> statusCode, message |-> "HTTP " \o FormatStatus(statusCode)]>>

\* NirmataClient.doRequestWithModel: the error it returns
doRequestWithModel(outcome) ==
  IF outcome.transportErr THEN [err |-> "transport", apiError |-> <<>>]
  ELSE IF outcome.statusCode # StatusOK
  THEN [err |-> "status", apiError |-> APIError(outcome.statusCode)]
  ELSE IF ~outcome.decodes THEN [err |-> "decode", apiError |-> <<>>]
  ELSE [err |-> "none", apiError |-> <<>>]

\* nirmataChat.Send: message is the Message of the decoded response
NirmataSend(chat, contents, outcome, message) ==
  IF Len(contents) = 0
  THEN [chat EXCEPT !.last = NirmataCall("Send", "noContent", <<>>, chat.history, <<>>)]
  ELSE
    LET userMessage == convertContentsToMessage(contents)
        messages == Append(chat.history, userMessage)
        e == doRequestWithModel(outcome)
    IN  IF e.err # "none"
        THEN [chat EXCEPT !.last = NirmataCall("Send", e.err, e.apiError, chat.history,
                                               <<messages>>)]
        ELSE [chat EXCEPT
                !.history = Append(Append(@, userMessage),
                                   nirmataMessage("assistant", message)),
                !.last = NirmataCall("Send", "none", <<>>, chat.history, <<messages>>)]

\* SendStreaming with the user message added before the HTTP exchange
NirmataSendStreamingEager(chat, contents, outcome) ==
  IF Len(contents) = 0
  THEN [chat EXCEPT !.last = NirmataCall("SendStreaming", "noContent", <<>>,
                                         chat.history, <<>>)]
  ELSE
    LET userMessage == convertContentsToMessage(contents)
        messages == Append(chat.history, userMessage)
    IN  [chat EXCEPT
           !.history = Append(@, userMessage),
           !.iter = IF ~outcome.transportErr /\ outcome.statusCode = StatusOK
                    THEN [NoNirmataStream EXCEPT !.status = "active", !.start = messages]
                    ELSE @,
           !.last = IF outcome.transportErr
                    THEN NirmataCall("SendStreaming", "transport", <<>>, chat.history,
                                     <<messages>>)
                    ELSE IF outcome.statusCode # StatusOK
                    THEN NirmataCall("SendStreaming", "status",
                                     APIError(outcome.statusCode), chat.history,
                                     <<messages>>)
                    ELSE NirmataCall("SendStreaming", "none", <<>>, chat.history,
                                     <<messages>>)]

\* nirmataChat.SendStreaming up to its return
NirmataSendStreaming(chat, contents, outcome) ==
  IF Len(contents) = 0
  THEN [chat EXCEPT !.last = NirmataCall("SendStreaming", "noContent", <<>>,
                                         chat.history, <<>>)]
  ELSE
    LET userMessage == convertContentsToMessage(contents)
        messages == Append(chat.history, userMessage)
    IN  IF outcome.transportErr
        THEN [chat EXCEPT !.last = NirmataCall("SendStreaming", "transport", <<>>,
                                               chat.history, <<messages>>)]
        ELSE IF outcome.statusCode # StatusOK
        THEN [chat EXCEPT !.last = NirmataCall("SendStreaming", "status",
                                               APIError(outcome.statusCode),
                                               chat.history, <<messages>>)]
        ELSE [chat EXCEPT
                !.history = Append(@, userMessage),
                !.iter = [NoNirmataStream EXCEPT
                            !.status = "active",
                            !.start = Append(chat.history, userMessage)],
                !.last = NirmataCall("SendStreaming", "none", <<>>, chat.history,
                                     <<messages>>)]

NirmataUnit(err, content) == [err |-> err, content |-> content]

\* the turn of the loop with the line replacing the text received
NirmataOnChunkLast(chat, chunk, cont) ==
  [chat EXCEPT !.iter.fullContent = chunk,
               !.iter.lines = Append(@, chunk),
               !.iter.units = Append(@, NirmataUnit(FALSE, chunk)),
               !.iter.status = IF cont THEN @ ELSE "stopped",
               !.iter.closed = IF cont THEN @ ELSE @ + 1]

\* one turn of the loop over scanner.Scan: the line is kept and yielded,
\* and the iterator returns, closing the body, when the caller answers false
NirmataOnChunk(chat, chunk, cont) ==
  [chat EXCEPT !.iter.fullContent = @ \o chunk,
               !.iter.lines = Append(@, chunk),
               !.iter.units = Append(@, NirmataUnit(FALSE, chunk)),
               !.iter.status = IF cont THEN @ ELSE "stopped",
               !.iter.closed = IF cont THEN @ ELSE @ + 1]

\* scanner.Scan returns false: the text received is added to the history,
\* the error of the scanner, if any, is yielded, and the body is closed
NirmataOnEnd(chat, scanErr) ==
  [chat EXCEPT
     !.history = IF chat.iter.fullContent # ""
                 THEN Append(@, nirmataMessage("assistant", chat.iter.fullContent))
                 ELSE @,
     !.iter.units = IF scanErr THEN Append(@, NirmataUnit(TRUE, "")) ELSE @,
     !.iter.status = IF scanErr THEN "failed" ELSE "done",
     !.iter.closed = @ + 1]

(***************************************************************************)
(* NewNirmataClient.  The environment gives each variable its value, ""    *)
(* when it is not set.                                                     *)
(***************************************************************************)
Environment(jwt, apiKey, endpoint, baseURL) ==
  [NIRMATA_JWT |-> jwt, NIRMATA_API_KEY |-> apiKey, NIRMATA_ENDPOINT |-> endpoint,
   NIRMATA_BASE_URL |-> baseURL]

BadURL == "http://[::1:bad:url"

\* url.Parse
ParseURL(rawURL) == [ok |-> rawURL # BadURL, url |-> rawURL]

NirmataClient(baseURL, apiKey) ==
  [err |-> "", client |-> <<[baseURL |-> baseURL, apiKey |-> apiKey]>>]

NoNirmataClient(err) == [err |-> err, client |-> <<>>]

\* NewNirmataClient of gollm/nirmata.go
NewNirmataClient(env) ==
  LET apiKey == env.NIRMATA_JWT
      baseURLStr == env.NIRMATA_ENDPOINT
      baseURL == ParseURL(baseURLStr)
  IN  IF baseURLStr = ""
      THEN NoNirmataClient("NIRMATA_ENDPOINT environment variable required")
      ELSE IF ~baseURL.ok THEN NoNirmataClient("parsing base URL")
      ELSE NirmataClient(baseURL.url, apiKey)

\* NewNirmataClient of the other copy of the file
NewNirmataClientRequiringKey(env) ==
  LET apiKey == env.NIRMATA_API_KEY
      baseURLStr == IF env.NIRMATA_ENDPOINT = "" THEN env.NIRMATA_BASE_URL
                    ELSE env.NIRMATA_ENDPOINT
      baseURL == ParseURL(baseURLStr)
  IN  IF apiKey = ""
      THEN NoNirmataClient("NIRMATA_API_KEY environment variable required")
      ELSE IF baseURLStr = ""
      THEN NoNirmataClient(
             "NIRMATA_ENDPOINT or NIRMATA_BASE_URL environment variable required")
      ELSE IF ~baseURL.ok THEN NoNirmataClient("parsing base URL")
      ELSE NirmataClient(baseURL.url, apiKey)

(***************************************************************************)
(* The last call of an operation other than Send and SendStreaming: its    *)
(* name, its arguments and its result.                                     *)
(***************************************************************************)
NoApp == [fn |-> "none", arg |-> <<>>, res |-> <<>>]

(***************************************************************************)
(* Errors and their classification.  An error is nil or carries the text   *)
(* of err.Error(), a sequence of words: the pieces of the text between its *)
(* spaces and punctuation, or longer pieces in which no letter is upper    *)
(* case and none of the words looked for occurs.  class names the failure  *)
(* the error comes from; the code never reads it.                          *)
(***************************************************************************)
NilError == [isNil |-> TRUE, class |-> "none", msg |-> <<>>]
ErrorOf(class, msg) == [isNil |-> FALSE, class |-> class, msg |-> msg]

\* strings.ToLower on a word of an error text
ToLower(w) ==
  CASE w = "ThrottlingException" -> "throttlingexception"
    [] w = "ServiceUnavailableException" -> "serviceunavailableexception"
    [] w = "ValidationException" -> "validationexception"
    [] w = "AccessDeniedException" -> "accessdeniedexception"
    [] w = "UnrecognizedClientException" -> "unrecognizedclientexception"
    [] w = "InternalServerError" -> "internalservererror"
    [] w = "RequestTimeout" -> "requesttimeout"
    [] w = "StatusCode" -> "statuscode"
    [] w = "converse API failed" -> "converse api failed"
    [] w = "ConverseStream failed" -> "conversestream failed"
    [] OTHER -> w

\* strings.Contains(w, substr) for a word w and a word substr looked for
Contains(w, substr) ==
  \/ w = substr
  \/ <<w, substr>> \in {<<"throttlingexception", "throttling">>,
                         <<"serviceunavailableexception", "serviceunavailable">>}

\* the errors of the Converse and ConverseStream calls of the AWS SDK:
\* the backend throttles, limits the request rate or is unavailable
OverloadErrors ==
  {ErrorOf("overload", <<"StatusCode", "429", "ThrottlingException", "too many requests">>),
   ErrorOf("overload", <<"StatusCode", "429", "ThrottlingException", "request rate is too high">>),
   ErrorOf("overload", <<"StatusCode", "503", "ServiceUnavailableException", "service unavailable">>)}

\* the backend refuses the request: schema, role sequence, authorization
RejectionErrors ==
  {ErrorOf("rejection", <<"StatusCode", "400", "ValidationException", "tool schema is invalid">>),
   ErrorOf("rejection", <<"StatusCode", "400", "ValidationException", "roles must alternate">>),
   ErrorOf("rejection", <<"StatusCode", "403", "AccessDeniedException", "not authorized">>),
   ErrorOf("rejection", <<"StatusCode", "403", "UnrecognizedClientException", "security token is invalid">>)}

\* the caller cancels the context
CancellationErrors ==
  {ErrorOf("cancellation", <<"context canceled">>),
   ErrorOf("cancellation", <<"request canceled", "context canceled">>)}

\* the request does not reach the backend
TransportErrors ==
  {ErrorOf("transport", <<"request send failed", "dial tcp", "connect", "connection refused">>),
   ErrorOf("transport", <<"request send failed", "read tcp", "connection reset by peer">>),
   ErrorOf("transport", <<"request send failed", "lookup", "no such host">>),
   ErrorOf("transport", <<"request send failed", "dial tcp", "i/o timeout">>)}

\* errors named by the other two words looked for
ServerErrors ==
  {ErrorOf("server", <<"StatusCode", "500", "InternalServerError">>),
   ErrorOf("server", <<"StatusCode", "408", "RequestTimeout">>)}

BackendErrors ==
  OverloadErrors \cup RejectionErrors \cup CancellationErrors
  \cup TransportErrors \cup ServerErrors

\* fmt.Errorf(prefix + ": %w", err)
Wrap(prefix, err) == [err EXCEPT !.msg = <<prefix>> \o @]

\* the errors Send, SendStreaming and the iterator return for a backend error
SendError(err) == Wrap("converse API failed", err)
SendStreamingError(err) == Wrap("ConverseStream failed", err)
StreamError(err) == Wrap("stream error", err)

Errors ==
  {NilError} \cup BackendErrors
  \cup {SendError(e) : e \in BackendErrors}
  \cup {SendStreamingError(e) : e \in BackendErrors}
  \cup {StreamError(e) : e \in BackendErrors}

retryableErrors ==
  <<"throttling", "serviceunavailable", "internalservererror", "requesttimeout">>

\* IsRetryableError looking for the words in the text as it is
IsRetryableErrorCaseSensitive(session, err) ==
  IF err.isNil THEN FALSE
  ELSE \E k \in 1..Len(retryableErrors) : \E i \in 1..Len(err.msg) :
         Contains(err.msg[i], retryableErrors[k])

\* IsRetryableError giving up once the session holds a conversation
IsRetryableErrorFirstTurn(session, err) ==
  IF err.isNil \/ Len(session.history) > 0 THEN FALSE
  ELSE \E k \in 1..Len(retryableErrors) : \E i \in 1..Len(err.msg) :
         Contains(ToLower(err.msg[i]), retryableErrors[k])

\* bedrockChatSession.IsRetryableError: session is the receiver
IsRetryableError(session, err) ==
  IF err.isNil THEN FALSE
  ELSE \E k \in 1..Len(retryableErrors) : \E i \in 1..Len(err.msg) :
         Contains(ToLower(err.msg[i]), retryableErrors[k])

(***************************************************************************)
(* Options.  Temperature and TopP are in hundredths.                       *)
(***************************************************************************)
BedrockOptions(region, model, maxTokens, temperature, topP, maxRetries) ==
  [Region |-> region, Model |-> model, MaxTokens |-> maxTokens,
   Temperature |-> temperature, TopP |-> topP, MaxRetries |-> maxRetries]

DefaultOptions == BedrockOptions("us-west-2", DefaultModel, 64000, 10, 90, 10)

\* gollm.InferenceConfig, with the same fields
InferenceConfig(region, model, maxTokens, temperature, topP, maxRetries) ==
  [Region |-> region, Model |-> model, MaxTokens |-> maxTokens,
   Temperature |-> temperature, TopP |-> topP, MaxRetries |-> maxRetries]

\* mergeWithClientOptions working on the defaults themselves instead of a copy
mergeWithClientOptionsInPlace(defaults, inferenceConfig) ==
  LET merged ==
        IF Len(inferenceConfig) = 0 THEN defaults
        ELSE LET config == inferenceConfig[1]
             IN  [ Region |-> IF config.Region # "" THEN config.Region
                              ELSE defaults.Region,
                   Model |-> IF config.Model # "" THEN config.Model
                             ELSE defaults.Model,
                   MaxTokens |-> IF config.MaxTokens # 0 THEN config.MaxTokens
                                 ELSE defaults.MaxTokens,
                   Temperature |-> IF config.Temperature # 0 THEN config.Temperature
                                   ELSE defaults.Temperature,
                   TopP |-> IF config.TopP # 0 THEN config.TopP ELSE defaults.TopP,
                   MaxRetries |-> IF config.MaxRetries # 0 THEN config.MaxRetries
                                  ELSE defaults.MaxRetries ]
  IN  [merged |-> merged, defaults |-> merged]

\* mergeWithClientOptions: inferenceConfig is opts.InferenceConfig, <<>> when
\* nil; the result is the options returned and the defaults after the call
mergeWithClientOptions(defaults, inferenceConfig) ==
  LET merged ==
        IF Len(inferenceConfig) = 0 THEN defaults
        ELSE LET config == inferenceConfig[1]
             IN  [ Region |-> IF config.Region # "" THEN config.Region
                              ELSE defaults.Region,
                   Model |-> IF config.Model # "" THEN config.Model
                             ELSE defaults.Model,
                   MaxTokens |-> IF config.MaxTokens # 0 THEN config.MaxTokens
                                 ELSE defaults.MaxTokens,
                   Temperature |-> IF config.Temperature # 0 THEN config.Temperature
                                   ELSE defaults.Temperature,
                   TopP |-> IF config.TopP # 0 THEN config.TopP ELSE defaults.TopP,
                   MaxRetries |-> IF config.MaxRetries # 0 THEN config.MaxRetries
                                  ELSE defaults.MaxRetries ]
  IN  [merged |-> merged, defaults |-> defaults]

\* no second session, and the second session started from the client with
\* its iterator
NoOther == <<>>
Other(session, iterator) == <<[cs |-> session, stream |-> iterator]>>

(***************************************************************************)
(* bedrockChatSession.Send                                                 *)
(***************************************************************************)
\* Send on a session of client c: the history it leaves, its error, the
\* input of the backend invocation and the calls of the callback.  When the
\* conversion of the usage panics, Send does not return and the history
\* keeps the user message.
SendResult(c, session, contents, reply) ==
  IF ~isModelSupported(session.model)
  THEN [history |-> session.history, err |-> "unsupportedModel", invoked |-> FALSE,
        request |-> NoRequest, calls |-> <<>>]
  ELSE
    LET pc == processContents(session.history, contents)
        h1 == IF pc.userMessage # ""
              THEN addTextMessage(pc.history, "user", pc.userMessage)
              ELSE pc.history
        input == <<buildConverseInput([session EXCEPT !.history = h1])>>
        cb == UsageCallback(c, toAny(reply.usage), session.model, 0, 0)
    IN  IF pc.err # "none"
        THEN [history |-> pc.history, err |-> pc.err, invoked |-> FALSE,
              request |-> NoRequest, calls |-> <<>>]
        ELSE IF reply.err
        THEN [history |-> removeLastMessage(h1), err |-> "backend", invoked |-> TRUE,
              request |-> input, calls |-> <<>>]
        ELSE IF cb.panic
        THEN [history |-> h1, err |-> "panic", invoked |-> TRUE,
              request |-> input, calls |-> <<>>]
        ELSE [history |-> addAssistantResponse(h1, parseConverseOutput(reply)),
              err |-> "none", invoked |-> TRUE, request |-> input,
              calls |-> cb.calls]

SendCall(contents, reply) ==
  LET r == SendResult(client, cs, contents, reply)
  IN  /\ cs' = [cs EXCEPT !.history = r.history]
      /\ last' = Returned("Send", r.err, r.invoked, cs.history, contents)
      /\ ops' = ops + 1
      /\ req' = r.request
      /\ client' = [client EXCEPT !.calls = @ \o r.calls]
      /\ UNCHANGED <<stream, nc, app, other>>

Send ==
  /\ ops < MaxOps
  /\ stream.status # "active"
  /\ \E contents \in ContentLists, reply \in Replies : SendCall(contents, reply)

(***************************************************************************)
(* bedrockChatSession.SendStreaming                                        *)
(***************************************************************************)
SendStreamingResult(session, contents, startErr) ==
  IF ~isModelSupported(session.model)
  THEN [history |-> session.history, err |-> "unsupportedModel", invoked |-> FALSE,
        request |-> NoRequest]
  ELSE
    LET pc == processContents(session.history, contents)
        h1 == addTextMessage(pc.history, "user", pc.userMessage)
        input == <<buildConverseStreamInput([session EXCEPT !.history = h1])>>
    IN  IF pc.err # "none"
        THEN [history |-> pc.history, err |-> pc.err, invoked |-> FALSE,
              request |-> NoRequest]
        ELSE IF startErr
        THEN [history |-> removeLastMessage(h1), err |-> "backend", invoked |-> TRUE,
              request |-> input]
        ELSE [history |-> h1, err |-> "none", invoked |-> TRUE, request |-> input]

SendStreamingCall(contents, startErr) ==
  LET r == SendStreamingResult(cs, contents, startErr)
  IN  /\ cs' = [cs EXCEPT !.history = r.history]
      /\ last' = Returned("SendStreaming", r.err, r.invoked, cs.history, contents)
      /\ stream' = IF r.err = "none" THEN NewStream(cs.history, r.history)
                   ELSE stream
      /\ req' = r.request
      /\ UNCHANGED <<nc, app, client, other>>

SendStreaming ==
  /\ ops < MaxOps
  /\ stream.status # "active"
  /\ \E contents \in ContentLists, startErr \in BOOLEAN :
       SendStreamingCall(contents, startErr)
  /\ ops' = ops + 1

\* the caller takes the iterator one event further
Drain(alphabet, max) ==
  /\ stream.status = "active"
  /\ Len(stream.events) < max
  /\ \E e \in alphabet, cont \in BOOLEAN :
       LET r == OnEvent(client, cs.model, stream, cs.history, e, cont)
       IN  /\ stream' = r.stream
           /\ cs' = [cs EXCEPT !.history = r.history]
           /\ client' = [client EXCEPT !.calls = @ \o r.calls]
  /\ UNCHANGED <<last, ops, req, nc, app, other>>

\* the channel of events is closed: the loop ends, the error of the stream,
\* if any, is yielded, and the deferred Close runs
StreamEnd ==
  /\ stream.status = "active"
  /\ \E err \in BOOLEAN :
       stream' = [stream EXCEPT
                    !.status = IF err THEN "failed" ELSE "done",
                    !.units = IF err
                              THEN Append(@, Unit(TRUE, "", <<>>, NoUsage,
                                                  Len(stream.events) + 1))
                              ELSE @,
                    !.closed = @ + 1]
  /\ UNCHANGED <<cs, last, ops, req, nc, app, client, other>>

Init ==
  /\ cs = StartChat(DefaultModel, "")
  /\ stream = NoStream
  /\ last = NoLast
  /\ ops = 0
  /\ req = NoRequest
  /\ nc = NoChat
  /\ app = NoApp
  /\ client = BedrockClient(FALSE)
  /\ other = NoOther

DrainSess == Drain(SessEvents, MaxSessEvents)

Next == Send \/ SendStreaming \/ DrainSess \/ StreamEnd

Spec == Init /\ [][Next]_vars

(***************************************************************************)
(* Sessions on which every call is a Send that succeeds.                   *)
(***************************************************************************)
SendOk ==
  /\ ops < MaxOps
  /\ \E contents \in ContentLists, reply \in Replies :
       /\ SendResult(client, cs, contents, reply).err = "none"
       /\ SendCall(contents, reply)

SpecSend == Init /\ [][SendOk]_vars

(***************************************************************************)
(* One call, Send or SendStreaming, on a session whose history is that of  *)
(* earlier turns.                                                          *)
(***************************************************************************)
\* histories Send leaves: none, a question answered by a tool call
StreamHistories ==
  { <<>>,
    <<Message("user", <<TextBlock("hi")>>),
      Message("assistant", <<ToolUseBlock("t0", "kubectl", {"a"})>>)>> }

\* histories earlier turns leave: none, a question answered by text or by a
\* tool call, a tool call answered and commented
PriorHistories ==
  StreamHistories
  \cup { <<Message("user", <<TextBlock("hi")>>),
           Message("assistant", <<TextBlock("a")>>)>>,
         <<Message("user", <<TextBlock("hi")>>),
           Message("assistant", <<TextBlock("a"), ToolUseBlock("t0", "kubectl", {"a"})>>),
           Message("user", <<ToolResultBlock("t0")>>),
           Message("assistant", <<TextBlock("a")>>)>> }

InitCall ==
  /\ \E h \in PriorHistories : cs = [StartChat(DefaultModel, "") EXCEPT !.history = h]
  /\ stream = NoStream
  /\ last = NoLast
  /\ ops = 0
  /\ req = NoRequest
  /\ nc = NoChat
  /\ app = NoApp
  /\ client = BedrockClient(FALSE)
  /\ other = NoOther

CallSend ==
  /\ last.op = "none"
  /\ \E contents \in ContentLists, reply \in Replies : SendCall(contents, reply)

CallSendStreaming ==
  /\ last.op = "none"
  /\ \E contents \in ContentLists, startErr \in BOOLEAN :
       SendStreamingCall(contents, startErr)
  /\ ops' = ops + 1

NextCall == CallSend \/ CallSendStreaming

SpecCall == InitCall /\ [][NextCall]_vars

(***************************************************************************)
(* One streaming turn over the whole alphabet of events, on a session      *)
(* whose history is that of no or one earlier turn.                        *)
(***************************************************************************)

\* a first question, or the result of the tool call the history ends with
StreamContents(history) ==
  IF Len(history) = 0 THEN {<<StringItem("hi")>>} ELSE {<<ResultItem("t0")>>}

InitStream ==
  /\ \E h \in StreamHistories : cs = [StartChat(DefaultModel, "") EXCEPT !.history = h]
  /\ stream = NoStream
  /\ last = NoLast
  /\ ops = 0
  /\ req = NoRequest
  /\ nc = NoChat
  /\ app = NoApp
  /\ client = BedrockClient(FALSE)
  /\ other = NoOther

StartStreaming ==
  /\ stream.status = "none"
  /\ last.op = "none"
  /\ \E contents \in StreamContents(cs.history), startErr \in BOOLEAN :
       SendStreamingCall(contents, startErr)
  /\ ops' = ops + 1

DrainAll == Drain(AllEvents, MaxEvents)

NextStream == StartStreaming \/ DrainAll \/ StreamEnd

SpecStream == InitStream /\ [][NextStream]_vars

(***************************************************************************)
(* Calls of SetFunctionDefinitions around one Send or SendStreaming.       *)
(***************************************************************************)
Definitions == {NilDef, FunctionDefinition("kubectl"), FunctionDefinition("bash")}

DefLists == SeqsUpTo(Definitions, MaxDefs)

SetFunctionDefinitionsCall ==
  \E defs \in DefLists :
    /\ cs' = SetFunctionDefinitions(cs, defs)
    /\ last' = Returned("SetFunctionDefinitions", "none", FALSE, cs.history, <<>>)
    /\ req' = NoRequest
    /\ app' = [fn |-> "SetFunctionDefinitions", arg |-> defs, res |-> <<>>]
    /\ UNCHANGED <<stream, ops, nc, client, other>>

\* the backend fails, or answers with a text
DefsReplies ==
  {Reply(TRUE, FALSE, <<>>, NoUsage), Reply(FALSE, TRUE, <<TextBlock("a")>>, SomeUsage)}

DefsSend ==
  /\ ops = 0
  /\ \E contents \in StreamContents(cs.history), reply \in DefsReplies :
       SendCall(contents, reply)

DefsSendStreaming ==
  /\ ops = 0
  /\ \E contents \in StreamContents(cs.history), startErr \in BOOLEAN :
       SendStreamingCall(contents, startErr)
  /\ ops' = ops + 1

NextDefs == SetFunctionDefinitionsCall \/ DefsSend \/ DefsSendStreaming

SpecDefs == InitStream /\ [][NextDefs]_vars

(***************************************************************************)
(* One call, Send or SendStreaming, on a Nirmata chat with or without a    *)
(* system prompt and an earlier turn, and the draining of its iterator.    *)
(***************************************************************************)
Chunks == {"", "x", "y"}
Prompts == {"", "sys"}

\* histories of a chat: that of StartChat, and one turn more
NirmataChats ==
  {NirmataStartChat(p) : p \in Prompts}
  \cup {[NirmataStartChat(p) EXCEPT
           !.history = @ \o <<nirmataMessage("user", "hi"),
                              nirmataMessage("assistant", "a")>>] : p \in Prompts}

InitNirmata ==
  /\ nc \in NirmataChats
  /\ cs = StartChat(DefaultModel, "")
  /\ stream = NoStream
  /\ last = NoLast
  /\ ops = 0
  /\ req = NoRequest
  /\ app = NoApp
  /\ client = BedrockClient(FALSE)
  /\ other = NoOther

NirmataCallSend ==
  /\ nc.last.op = "none"
  /\ \E contents \in NContentLists, outcome \in HTTPOutcomes, message \in {"", "a"} :
       nc' = NirmataSend(nc, contents, outcome, message)
  /\ UNCHANGED <<cs, stream, last, ops, req, app, client, other>>

NirmataCallSendStreaming ==
  /\ nc.last.op = "none"
  /\ \E contents \in NContentLists, outcome \in HTTPOutcomes :
       nc' = NirmataSendStreaming(nc, contents, outcome)
  /\ UNCHANGED <<cs, stream, last, ops, req, app, client, other>>

\* the caller takes the iterator one line further
NirmataChunk ==
  /\ nc.iter.status = "active"
  /\ Len(nc.iter.units) < MaxChunks
  /\ \E chunk \in Chunks, cont \in BOOLEAN : nc' = NirmataOnChunk(nc, chunk, cont)
  /\ UNCHANGED <<cs, stream, last, ops, req, app, client, other>>

\* the body ends, or reading it fails
NirmataEnd ==
  /\ nc.iter.status = "active"
  /\ \E scanErr \in BOOLEAN : nc' = NirmataOnEnd(nc, scanErr)
  /\ UNCHANGED <<cs, stream, last, ops, req, app, client, other>>

NextNirmata ==
  NirmataCallSend \/ NirmataCallSendStreaming \/ NirmataChunk \/ NirmataEnd

SpecNirmata == InitNirmata /\ [][NextNirmata]_vars

(***************************************************************************)
(* Calls of IsRetryableError on a session of any model, history and        *)
(* function definitions.                                                   *)
(***************************************************************************)
RetrySessions ==
  {[model |-> m, history |-> h, functionDefs |-> d] :
     m \in {DefaultModel, "us.amazon.nova-pro-v1:0"},
     h \in PriorHistories,
     d \in {<<>>, <<FunctionDefinition("kubectl")>>}}

InitRetry ==
  /\ cs \in RetrySessions
  /\ stream = NoStream
  /\ last = NoLast
  /\ ops = 0
  /\ req = NoRequest
  /\ nc = NoChat
  /\ app = NoApp
  /\ client = BedrockClient(FALSE)
  /\ other = NoOther

IsRetryableErrorCall ==
  /\ \E err \in Errors :
       app' = [fn |-> "IsRetryableError",
               arg |-> [session |-> cs, err |-> err],
               res |-> IsRetryableError(cs, err)]
  /\ UNCHANGED <<cs, stream, last, ops, req, nc, client, other>>

SpecRetry == InitRetry /\ [][IsRetryableErrorCall]_vars

(***************************************************************************)
(* Calls of convertAWSUsage and UsageMetadata on every payload.            *)
(***************************************************************************)
Counts == {<<>>, <<0>>, <<7>>}

Payloads ==
  {NilPayload, NilTokenUsage, OtherPayload("string"), OtherPayload("tokenUsageValue")}
  \cup {TokenUsage(i, o, t) : i \in Counts, o \in Counts, t \in Counts}

UsageModels == {"", "test-model"}
UsageProviders == {"", "bedrock"}

InitPure ==
  /\ cs = StartChat(DefaultModel, "")
  /\ stream = NoStream
  /\ last = NoLast
  /\ ops = 0
  /\ req = NoRequest
  /\ nc = NoChat
  /\ app = NoApp
  /\ client = BedrockClient(FALSE)
  /\ other = NoOther

convertAWSUsageCall ==
  /\ \E awsUsage \in Payloads, model \in UsageModels, provider \in UsageProviders :
       app' = [fn |-> "convertAWSUsage",
               arg |-> [awsUsage |-> awsUsage, model |-> model, provider |-> provider],
               res |-> convertAWSUsage(awsUsage, model, provider)]
  /\ UNCHANGED <<cs, stream, last, ops, req, nc, client, other>>

UsageMetadataCall ==
  /\ \E usage \in Payloads, model \in UsageModels, provider \in UsageProviders :
       LET r == [usage |-> usage, model |-> model, provider |-> provider]
       IN  app' = [fn |-> "UsageMetadata", arg |-> r, res |-> UsageMetadata(r)]
  /\ UNCHANGED <<cs, stream, last, ops, req, nc, client, other>>

NextUsage == convertAWSUsageCall \/ UsageMetadataCall

SpecUsage == InitPure /\ [][NextUsage]_vars

(***************************************************************************)
(* Calls of mergeWithClientOptions on every defaults and configuration.    *)
(***************************************************************************)
Defaults ==
  {DefaultOptions, BedrockOptions("eu-west-1", "default-model", 1000, 50, 0, 3)}

InferenceConfigs ==
  {<<>>}
  \cup {<<InferenceConfig(r, m, mt, t, tp, mr)>> :
          r \in {"", "us-east-1"}, m \in {"", "custom-model"}, mt \in {0, 2000},
          t \in {0, 70}, tp \in {0, 95}, mr \in {0, 5}}

mergeWithClientOptionsCall ==
  /\ \E defaults \in Defaults, inferenceConfig \in InferenceConfigs :
       app' = [fn |-> "mergeWithClientOptions",
               arg |-> [defaults |-> defaults, inferenceConfig |-> inferenceConfig],
               res |-> mergeWithClientOptions(defaults, inferenceConfig)]
  /\ UNCHANGED <<cs, stream, last, ops, req, nc, client, other>>

SpecMerge == InitPure /\ [][mergeWithClientOptionsCall]_vars

(***************************************************************************)
(* One call of convertContentsToMessage on any list of items.              *)
(***************************************************************************)
ConvertItems ==
  {NString("hi"), NString("there"), NTextMessage("m"), NOtherMessage, NValue("42"),
   NMessage("text", NilNPayload), NMessage("text", NPayload(FALSE, "7"))}

convertContentsToMessageCall ==
  /\ app.fn = "none"
  /\ \E contents \in SeqsUpTo(ConvertItems, MaxItems) :
       app' = [fn |-> "convertContentsToMessage", arg |-> contents,
               res |-> convertContentsToMessage(contents)]
  /\ UNCHANGED <<cs, stream, last, ops, req, nc, client, other>>

SpecConvert == InitPure /\ [][convertContentsToMessageCall]_vars

(***************************************************************************)
(* Calls of Initialize on a Nirmata chat with or without a system prompt   *)
(* and an earlier turn.                                                    *)
(***************************************************************************)
ApiMessages ==
  {ApiMessage("user", "text", NPayload(TRUE, "hello")),
   ApiMessage("model", "text", NPayload(TRUE, "hi")),
   ApiMessage("agent", "text", NPayload(TRUE, "ok")),
   ApiMessage("model", "text", NPayload(FALSE, "7")),
   ApiMessage("", "text", NPayload(TRUE, "x")),
   ApiMessage("user", "error", NPayload(TRUE, "hello")),
   ApiMessage("user", "text", NilNPayload),
   ApiMessage("user", "text", NPayload(TRUE, ""))}

InitializeCall ==
  /\ ops < MaxOps
  /\ \E history \in SeqsUpTo(ApiMessages, MaxMsgs) :
       /\ nc' = Initialize(nc, history)
       /\ app' = [fn |-> "Initialize", arg |-> history, res |-> <<>>]
  /\ ops' = ops + 1
  /\ UNCHANGED <<cs, stream, last, req, client, other>>

SpecInitialize == InitNirmata /\ [][InitializeCall]_vars

(***************************************************************************)
(* One call of NewNirmataClient in any environment.                        *)
(***************************************************************************)
Environments ==
  {Environment(jwt, apiKey, endpoint, baseURL) :
     jwt \in {"", "jwt-a", "jwt-b"}, apiKey \in {"", "jwt-a", "key"},
     endpoint \in {"", "https://api.nirmata.com:8443", BadURL},
     baseURL \in {"", "https://localhost:8443", BadURL}}

NewNirmataClientCall ==
  /\ app.fn = "none"
  /\ \E env \in Environments :
       app' = [fn |-> "NewNirmataClient", arg |-> env, res |-> NewNirmataClient(env)]
  /\ UNCHANGED <<cs, stream, last, ops, req, nc, client, other>>

NewNirmataClientRequiringKeyCall ==
  /\ app.fn = "none"
  /\ \E env \in Environments :
       app' = [fn |-> "NewNirmataClientRequiringKey", arg |-> env,
               res |-> NewNirmataClientRequiringKey(env)]
  /\ UNCHANGED <<cs, stream, last, ops, req, nc, client, other>>

NextClient == NewNirmataClientCall \/ NewNirmataClientRequiringKeyCall

SpecClient == InitPure /\ [][NextClient]_vars

(***************************************************************************)
(* One streaming turn, of a Bedrock session or of a Nirmata chat, whose    *)
(* caller may drop the iterator without running it, or run it again once   *)
(* it has returned.                                                        *)
(***************************************************************************)
CloseEvents == {TextDeltaEv("x"), ToolStartEv(0), StopEv(0), MessageStopEv}

CloseStartStreaming ==
  /\ nc.last.op = "none"
  /\ StartStreaming

CloseDrain == Drain(CloseEvents, MaxSessEvents)

\* the caller never ranges over the sequence SendStreaming returned: the
\* function is not run, and neither is its deferred Close
Abandon ==
  /\ stream.status = "active"
  /\ Len(stream.events) = 0
  /\ stream.closed = 0
  /\ stream' = [stream EXCEPT !.status = "abandoned"]
  /\ UNCHANGED <<cs, last, ops, req, nc, app, client, other>>

\* the caller ranges over the sequence again: the channel of events is
\* closed, so the loop ends at once, the error of the stream, if any, is
\* yielded again, and the deferred Close runs again
Reiterate ==
  /\ stream.status \in {"done", "stopped", "failed"}
  /\ stream.closed < MaxRuns
  /\ stream' = [stream EXCEPT
                  !.units = IF stream.status = "failed"
                            THEN Append(@, Unit(TRUE, "", <<>>, NoUsage,
                                                Len(stream.events) + 1))
                            ELSE @,
                  !.closed = @ + 1]
  /\ UNCHANGED <<cs, last, ops, req, nc, app, client, other>>

CloseNirmataStreaming ==
  /\ last.op = "none"
  /\ nc.last.op = "none"
  /\ \E outcome \in HTTPOutcomes :
       nc' = NirmataSendStreaming(nc, <<NString("hi")>>, outcome)
  /\ UNCHANGED <<cs, stream, last, ops, req, app, client, other>>

\* the caller never ranges over the sequence of the Nirmata chat
NirmataAbandon ==
  /\ nc.iter.status = "active"
  /\ Len(nc.iter.lines) = 0
  /\ nc.iter.closed = 0
  /\ nc' = [nc EXCEPT !.iter.status = "abandoned"]
  /\ UNCHANGED <<cs, stream, last, ops, req, app, client, other>>

\* the caller ranges over the sequence of the Nirmata chat again: reading
\* the closed body fails, the error is yielded, and the deferred Close of
\* the body runs again
NirmataReiterate ==
  /\ nc.iter.status \in {"done", "stopped", "failed"}
  /\ nc.iter.closed < MaxRuns
  /\ nc' = [nc EXCEPT !.iter.units = Append(@, NirmataUnit(TRUE, "")),
                      !.iter.closed = @ + 1]
  /\ UNCHANGED <<cs, stream, last, ops, req, app, client, other>>

NextClose ==
  \/ CloseStartStreaming \/ CloseDrain \/ StreamEnd \/ Abandon \/ Reiterate
  \/ CloseNirmataStreaming \/ NirmataChunk \/ NirmataEnd \/ NirmataAbandon
  \/ NirmataReiterate

SpecClose == InitNirmata /\ [][NextClose]_vars

(***************************************************************************)
(* Two sessions started from one client, each driven by its own worker:    *)
(* the first sends "hi" and defines kubectl, the second sends "yo" and      *)
(* defines bash.                                                           *)
(***************************************************************************)
SessionEvents == {TextDeltaEv("x"), MessageStopEv}

InitSessions ==
  /\ cs = StartChat(DefaultModel, "")
  /\ stream = NoStream
  /\ last = NoLast
  /\ ops = 0
  /\ req = NoRequest
  /\ nc = NoChat
  /\ app = NoApp
  /\ client = BedrockClient(FALSE)
  /\ other = Other(StartChat(DefaultModel, ""), NoStream)

FirstSend ==
  /\ ops < MaxOps
  /\ stream.status # "active"
  /\ \E reply \in DefsReplies : SendCall(<<StringItem("hi")>>, reply)

FirstSendStreaming ==
  /\ ops < MaxOps
  /\ stream.status # "active"
  /\ \E startErr \in BOOLEAN : SendStreamingCall(<<StringItem("hi")>>, startErr)
  /\ ops' = ops + 1

FirstDrain == Drain(SessionEvents, MaxSessEvents)

FirstSetFunctionDefinitions ==
  \E defs \in {<<>>, <<FunctionDefinition("kubectl")>>} :
    /\ cs' = SetFunctionDefinitions(cs, defs)
    /\ UNCHANGED <<stream, last, ops, req, nc, app, client, other>>

\* Send on the second session, the history being kept in one place for
\* all the sessions of the client
OtherSendCallShared(contents, reply) ==
  LET r == SendResult(client, other[1].cs, contents, reply)
  IN  /\ other' = Other([other[1].cs EXCEPT !.history = r.history], other[1].stream)
      /\ cs' = [cs EXCEPT !.history = r.history]
      /\ client' = [client EXCEPT !.calls = @ \o r.calls]
      /\ ops' = ops + 1
      /\ UNCHANGED <<stream, last, req, nc, app>>

\* Send on the second session
OtherSendCall(contents, reply) ==
  LET r == SendResult(client, other[1].cs, contents, reply)
  IN  /\ other' = Other([other[1].cs EXCEPT !.history = r.history], other[1].stream)
      /\ client' = [client EXCEPT !.calls = @ \o r.calls]
      /\ ops' = ops + 1
      /\ UNCHANGED <<cs, stream, last, req, nc, app>>

OtherSend ==
  /\ ops < MaxOps
  /\ other[1].stream.status # "active"
  /\ \E reply \in DefsReplies : OtherSendCall(<<StringItem("yo")>>, reply)

\* SendStreaming on the second session
OtherSendStreaming ==
  /\ ops < MaxOps
  /\ other[1].stream.status # "active"
  /\ \E startErr \in BOOLEAN :
       LET r == SendStreamingResult(other[1].cs, <<StringItem("yo")>>, startErr)
       IN  other' = Other([other[1].cs EXCEPT !.history = r.history],
                          IF r.err = "none"
                          THEN NewStream(other[1].cs.history, r.history)
                          ELSE other[1].stream)
  /\ ops' = ops + 1
  /\ UNCHANGED <<cs, stream, last, req, nc, app, client>>

\* the worker of the second session takes its iterator one event further
OtherDrain ==
  /\ other[1].stream.status = "active"
  /\ Len(other[1].stream.events) < MaxSessEvents
  /\ \E e \in SessionEvents, cont \in BOOLEAN :
       LET r == OnEvent(client, other[1].cs.model, other[1].stream,
                        other[1].cs.history, e, cont)
       IN  /\ other' = Other([other[1].cs EXCEPT !.history = r.history], r.stream)
           /\ client' = [client EXCEPT !.calls = @ \o r.calls]
  /\ UNCHANGED <<cs, stream, last, ops, req, nc, app>>

\* the stream of the second session ends
OtherStreamEnd ==
  /\ other[1].stream.status = "active"
  /\ \E err \in BOOLEAN :
       other' = Other(other[1].cs,
                      [other[1].stream EXCEPT
                         !.status = IF err THEN "failed" ELSE "done",
                         !.units = IF err
                                   THEN Append(@, Unit(TRUE, "", <<>>, NoUsage,
                                                       Len(other[1].stream.events) + 1))
                                   ELSE @,
                         !.closed = @ + 1])
  /\ UNCHANGED <<cs, stream, last, ops, req, nc, app, client>>

OtherSetFunctionDefinitions ==
  \E defs \in {<<>>, <<FunctionDefinition("bash")>>} :
    /\ other' = Other(SetFunctionDefinitions(other[1].cs, defs), other[1].stream)
    /\ UNCHANGED <<cs, stream, last, ops, req, nc, app, client>>

NextSessions ==
  \/ FirstSend \/ FirstSendStreaming \/ FirstDrain \/ StreamEnd
  \/ FirstSetFunctionDefinitions
  \/ OtherSend \/ OtherSendStreaming \/ OtherDrain \/ OtherStreamEnd
  \/ OtherSetFunctionDefinitions

SpecSessions == InitSessions /\ [][NextSessions]_vars

(***************************************************************************)
(* Calls of Send, SendStreaming and SetFunctionDefinitions with empty      *)
(* contents, empty strings, and replies and streams with and without text. *)
(***************************************************************************)
HistoryContents == {<<>>, <<StringItem("")>>, <<StringItem("hi")>>}

HistoryReplies ==
  {Reply(TRUE, FALSE, <<>>, NoUsage), Reply(FALSE, FALSE, <<>>, SomeUsage)}
  \cup {Reply(FALSE, TRUE, c, SomeUsage) :
          c \in {<<>>, <<TextBlock("")>>, <<TextBlock("a")>>, <<OtherBlock>>}}

HistoryEvents == {TextDeltaEv(""), TextDeltaEv("x"), MessageStopEv}

HistorySend ==
  /\ ops < MaxOps
  /\ stream.status # "active"
  /\ \E contents \in HistoryContents, reply \in HistoryReplies :
       SendCall(contents, reply)

HistorySendStreaming ==
  /\ ops < MaxOps
  /\ stream.status # "active"
  /\ \E contents \in HistoryContents, startErr \in BOOLEAN :
       SendStreamingCall(contents, startErr)
  /\ ops' = ops + 1

HistoryDrain == Drain(HistoryEvents, MaxSessEvents)

NextHistory ==
  \/ HistorySend \/ HistorySendStreaming \/ HistoryDrain \/ StreamEnd
  \/ FirstSetFunctionDefinitions

SpecHistory == Init /\ [][NextHistory]_vars

(***************************************************************************)
(* One Send of tool results only, of one or two call ids in either order,  *)
(* on the histories earlier turns leave.                                   *)
(***************************************************************************)
ResultItems == {ResultItem("t0"), ResultItem("t1")}

ResultLists == SeqsUpTo(ResultItems, MaxContents) \ {<<>>}

ResultsSend ==
  /\ last.op = "none"
  /\ \E contents \in ResultLists, reply \in Replies : SendCall(contents, reply)

SpecResults == InitCall /\ [][ResultsSend]_vars

(***************************************************************************)
(* One caller interleaving calls of SendStreaming and Send with the steps  *)
(* of draining: a Send may start while the iterator of the earlier turn is *)
(* not drained.  A streaming turn asks "s" and is answered by deltas "x",   *)
(* a Send asks "q" and is answered "a"; a stream is text deltas followed   *)
(* by one MessageStop.                                                     *)
(***************************************************************************)
LazyReplies ==
  {Reply(TRUE, FALSE, <<>>, NoUsage), Reply(FALSE, TRUE, <<TextBlock("a")>>, SomeUsage)}

LazyEvents == {TextDeltaEv("x"), MessageStopEv}

LazySend ==
  /\ ops < MaxOps
  /\ \E reply \in LazyReplies : SendCall(<<StringItem("q")>>, reply)

LazySendStreaming ==
  /\ ops < MaxOps
  /\ stream.status # "active"
  /\ \E startErr \in BOOLEAN : SendStreamingCall(<<StringItem("s")>>, startErr)
  /\ ops' = ops + 1

LazyDrain ==
  /\ \A k \in 1..Len(stream.events) : stream.events[k] # MessageStopEv
  /\ Drain(LazyEvents, MaxSessEvents)

NextLazy == LazySend \/ LazySendStreaming \/ LazyDrain \/ StreamEnd

SpecLazy == Init /\ [][NextLazy]_vars

(***************************************************************************)
(* A client made by NewBedrockClient from the default options and the      *)
(* inference configuration of the caller, StartChat on it for a requested  *)
(* model, and calls of Send and SendStreaming on the session returned.     *)
(***************************************************************************)
\* opts.InferenceConfig: nil, or a configuration that names no model, a
\* supported model or a model that is not supported
ClientConfigs ==
  {<<>>}
  \cup {<<InferenceConfig("", m, 0, 0, 0, 0)>> :
          m \in {"", "us.amazon.nova-pro-v1:0", "custom-model"}}

RequestedModels == {"", "us.amazon.nova-lite-v1:0", "gpt-4"}

StartChatCall ==
  /\ app.fn = "none"
  /\ \E inferenceConfig \in ClientConfigs, model \in RequestedModels :
       LET options == mergeWithClientOptions(DefaultOptions, inferenceConfig).merged
       IN  /\ cs' = StartChat(options.Model, model)
           /\ app' = [fn |-> "StartChat",
                      arg |-> [inferenceConfig |-> inferenceConfig, model |-> model],
                      res |-> <<>>]
  /\ UNCHANGED <<stream, last, ops, req, nc, client, other>>

StartedSend ==
  /\ app.fn = "StartChat"
  /\ ops < MaxOps
  /\ stream.status # "active"
  /\ \E reply \in DefsReplies : SendCall(<<StringItem("hi")>>, reply)

StartedSendStreaming ==
  /\ app.fn = "StartChat"
  /\ ops < MaxOps
  /\ stream.status # "active"
  /\ \E startErr \in BOOLEAN : SendStreamingCall(<<StringItem("hi")>>, startErr)
  /\ ops' = ops + 1

NextStartChat == StartChatCall \/ StartedSend \/ StartedSendStreaming \/ StreamEnd

SpecStartChat == InitPure /\ [][NextStartChat]_vars

(***************************************************************************)
(* Chats of the Nirmata provider through StartChat, Initialize, Send and    *)
(* SendStreaming in any order, the iterator drained to any point.          *)
(***************************************************************************)
SystemMessages ==
  {ApiMessage("user", "text", NPayload(TRUE, "hello")),
   ApiMessage("model", "text", NPayload(TRUE, "hi")),
   ApiMessage("", "text", NPayload(TRUE, "x"))}

SystemContents == {<<>>, <<NString("hi")>>}

SystemStartChat ==
  /\ ops < MaxOps
  /\ \E systemPrompt \in Prompts : nc' = NirmataStartChat(systemPrompt)
  /\ ops' = ops + 1
  /\ app' = [fn |-> "StartChat", arg |-> <<>>, res |-> <<>>]
  /\ UNCHANGED <<cs, stream, last, req, client, other>>

SystemInitialize ==
  /\ ops < MaxOps
  /\ \E history \in SeqsUpTo(SystemMessages, MaxMsgs) : nc' = Initialize(nc, history)
  /\ ops' = ops + 1
  /\ app' = [fn |-> "Initialize", arg |-> <<>>, res |-> <<>>]
  /\ UNCHANGED <<cs, stream, last, req, client, other>>

SystemSend ==
  /\ ops < MaxOps
  /\ \E contents \in SystemContents, outcome \in HTTPOutcomes :
       nc' = NirmataSend(nc, contents, outcome, "a")
  /\ ops' = ops + 1
  /\ UNCHANGED <<cs, stream, last, req, app, client, other>>

SystemSendStreaming ==
  /\ ops < MaxOps
  /\ nc.iter.status # "active"
  /\ \E contents \in SystemContents, outcome \in HTTPOutcomes :
       nc' = NirmataSendStreaming(nc, contents, outcome)
  /\ ops' = ops + 1
  /\ UNCHANGED <<cs, stream, last, req, app, client, other>>

NextSystem ==
  \/ SystemStartChat \/ SystemInitialize \/ SystemSend \/ SystemSendStreaming
  \/ NirmataChunk \/ NirmataEnd

SpecSystem == InitNirmata /\ [][NextSystem]_vars

(***************************************************************************)
(* The streaming of bedrockChat (package gollm), which keeps the partial   *)
(* tool calls in a map from the index of the content block.  The iterator  *)
(* is held by stream: partialTools is the map, a function on the indices   *)
(* that have an entry, completedTools the tool-use blocks of the closed    *)
(* slots; the messages of the chat are cs.history.  A tool-use block has   *)
(* an id, a name and an Input document, <<>> when nil.                     *)
(***************************************************************************)
partialTool(id, name, input) == [id |-> id, name |-> name, input |-> input]

\* types.ToolUseBlock
SlotToolUse(id, name, input) == [id |-> id, name |-> name, input |-> input]

\* a bedrockStreamResponse, or the error, handed to yield while the event
\* number src is processed
SlotUnit(err, content, toolUses, usage, src) ==
  [err |-> err, content |-> content, toolUses |-> toolUses, usage |-> usage,
   src |-> src]

\* bedrockToolPart.AsFunctionCalls of the part of a tool-use block: the
\* arguments are the nil map when the block has no Input
AsFunctionCalls(toolUse) ==
  FunctionCall(toolUse.id, toolUse.name,
               IF Len(toolUse.input) = 0 THEN NoArgs ELSE toolUse.input[1])

\* bedrockChat.addContentsToHistory: one user message for each content
RECURSIVE addContentsToHistory(_, _)
addContentsToHistory(messages, contents) ==
  IF Len(contents) = 0 THEN messages
  ELSE LET c == Head(contents)
           block == IF c.kind = "result" THEN ToolResultBlock(c.id)
                    ELSE TextBlock(c.text)
       IN  addContentsToHistory(Append(messages, Message("user", <<block>>)),
                                Tail(contents))

SlotNoStream ==
  [status |-> "none", fullContent |-> "", partialTools |-> <<>>,
   completedTools |-> <<>>, events |-> <<>>, units |-> <<>>, closed |-> 0,
   before |-> <<>>, start |-> <<>>]

\* one iteration of the loop of bedrockChat.SendStreaming over the events,
\* the caller answering cont to a yield
SlotOnEvent(s0, e, cont) ==
  LET s == [s0 EXCEPT !.events = Append(@, e)]
      n == Len(s.events)
  IN  CASE e.type = "ContentBlockDelta" ->
             IF e.kind = "text"
             THEN Yield([s EXCEPT !.fullContent = @ \o e.text],
                        SlotUnit(FALSE, e.text, <<>>, NoUsage, n), cont)
             ELSE IF e.kind = "toolUse" /\ e.idx \in DOMAIN s.partialTools
             THEN [s EXCEPT !.partialTools[e.idx].input = @ \o e.frag]
             ELSE s
        [] e.type = "ContentBlockStart" ->
             IF e.kind = "toolUse"
             THEN [s EXCEPT !.partialTools =
                              (e.idx :> partialTool(e.id, e.name, <<>>)) @@ @]
             ELSE s
        [] e.type = "ContentBlockStop" ->
             IF e.idx \in DOMAIN s.partialTools
             THEN LET partial == s.partialTools[e.idx]
                      toolUse == SlotToolUse(partial.id, partial.name, <<>>)
                      y == Yield([s EXCEPT !.completedTools = Append(@, toolUse)],
                                 SlotUnit(FALSE, "", <<toolUse>>, NoUsage, n), cont)
                  IN  IF cont
                      THEN [y EXCEPT !.partialTools =
                                       [i \in DOMAIN @ \ {e.idx} |-> @[i]]]
                      ELSE y
             ELSE s
        [] e.type = "Metadata" ->
             IF Len(e.usage) > 0
             THEN [s EXCEPT !.units =
                              Append(@, SlotUnit(FALSE, "", <<>>, e.usage, n))]
             ELSE s
        [] OTHER -> s

RECURSIVE SlotToolBlocks(_)
\* the content blocks of the completed tools
SlotToolBlocks(completedTools) ==
  IF Len(completedTools) = 0 THEN <<>>
  ELSE <<ToolUseBlock(Head(completedTools).id, Head(completedTools).name,
                      AsFunctionCalls(Head(completedTools)).args)>>
       \o SlotToolBlocks(Tail(completedTools))

\* the assistant message added once the loop over the events has ended
SlotCommit(messages, s) ==
  LET content == (IF Len(s.fullContent) > 0 THEN <<TextBlock(s.fullContent)>>
                  ELSE <<>>)
                 \o SlotToolBlocks(s.completedTools)
  IN  IF Len(content) > 0 THEN Append(messages, Message("assistant", content))
      ELSE messages

(***************************************************************************)
(* One streaming turn of bedrockChat over tool slots of two indices, text  *)
(* deltas and usage.                                                       *)
(***************************************************************************)
SlotEvents ==
  {TextDeltaEv("x"), MetadataEv(SomeUsage)}
  \cup {ToolStartEv(i) : i \in ToolSlots}
  \cup UNION {{ToolDeltaEv(i, f) : f \in Fragments(i)} : i \in ToolSlots}
  \cup {StopEv(i) : i \in ToolSlots}

\* bedrockChat.SendStreaming up to its return
SlotSendStreaming ==
  /\ stream.status = "none"
  /\ \E startErr \in BOOLEAN :
       LET messages == addContentsToHistory(cs.history, <<StringItem("hi")>>)
       IN  /\ cs' = [cs EXCEPT !.history = messages]
           /\ stream' = IF startErr THEN [SlotNoStream EXCEPT !.status = "failed"]
                        ELSE [SlotNoStream EXCEPT !.status = "active",
                                                  !.before = cs.history,
                                                  !.start = messages]
           /\ last' = Returned("SendStreaming",
                               IF startErr THEN "backend" ELSE "none", TRUE,
                               cs.history, <<StringItem("hi")>>)
  /\ ops' = ops + 1
  /\ UNCHANGED <<req, nc, app, client, other>>

\* the caller takes the iterator one event further
SlotDrain ==
  /\ stream.status = "active"
  /\ Len(stream.events) < MaxEvents
  /\ \E e \in SlotEvents, cont \in BOOLEAN : stream' = SlotOnEvent(stream, e, cont)
  /\ UNCHANGED <<cs, last, ops, req, nc, app, client, other>>

\* the channel of events is closed: the assistant message is added, the
\* error of the stream, if any, is yielded, and the deferred Close runs
SlotStreamEnd ==
  /\ stream.status = "active"
  /\ \E err \in BOOLEAN :
       stream' = [stream EXCEPT
                    !.status = IF err THEN "failed" ELSE "done",
                    !.units = IF err
                              THEN Append(@, SlotUnit(TRUE, "", <<>>, NoUsage,
                                                      Len(stream.events) + 1))
                              ELSE @,
                    !.closed = @ + 1]
  /\ cs' = [cs EXCEPT !.history = SlotCommit(@, stream)]
  /\ UNCHANGED <<last, ops, req, nc, app, client, other>>

NextSlots == SlotSendStreaming \/ SlotDrain \/ SlotStreamEnd

SpecSlots == Init /\ [][NextSlots]_vars

(***************************************************************************)
(* Replies and streams whose tool-use blocks come with and without an id.  *)
(***************************************************************************)
ToolIdReplies ==
  {Reply(TRUE, FALSE, <<>>, NoUsage)}
  \cup {Reply(FALSE, TRUE, c, SomeUsage) :
          c \in {<<ToolUseBlock("t0", "kubectl", {"a"})>>,
                 <<ToolUseBlockNoId("kubectl", {"a"})>>,
                 <<TextBlock("a"), ToolUseBlockNoId("bash", NoArgs)>>}}

ToolIdEvents ==
  {ToolStartEv(0), ToolStartNoIdEv(1), StopEv(0), StopEv(1), MessageStopEv}

ToolIdSend ==
  /\ ops < MaxOps
  /\ stream.status # "active"
  /\ \E reply \in ToolIdReplies : SendCall(<<StringItem("hi")>>, reply)

ToolIdSendStreaming ==
  /\ ops < MaxOps
  /\ stream.status # "active"
  /\ \E startErr \in BOOLEAN : SendStreamingCall(<<StringItem("hi")>>, startErr)
  /\ ops' = ops + 1

ToolIdDrain == Drain(ToolIdEvents, MaxEvents)

NextToolIds ==
  \/ ToolIdSend \/ ToolIdSendStreaming \/ ToolIdDrain \/ StreamEnd

SpecToolIds == Init /\ [][NextToolIds]_vars

(***************************************************************************)
(* Sends and one streaming turn on a session of a client with or without   *)
(* a usage callback, the backend reporting no usage, all counts or some.   *)
(***************************************************************************)
PartialUsage == <<[inputTokens |-> <<3>>, outputTokens |-> <<>>, totalTokens |-> <<>>]>>

CallbackUsages == {NoUsage, SomeUsage, PartialUsage}

CallbackReplies ==
  {Reply(TRUE, FALSE, <<>>, NoUsage)}
  \cup {Reply(FALSE, TRUE, <<TextBlock("a")>>, u) : u \in CallbackUsages}

CallbackEvents ==
  {TextDeltaEv("x"), MessageStopEv} \cup {MetadataEv(u) : u \in CallbackUsages}

CallbackModels == {DefaultModel, "us.anthropic.claude-3-7-sonnet-20250219-v1:0"}

InitCallback ==
  /\ \E m \in CallbackModels : cs = StartChat(DefaultModel, m)
  /\ stream = NoStream
  /\ last = NoLast
  /\ ops = 0
  /\ req = NoRequest
  /\ nc = NoChat
  /\ app = NoApp
  /\ \E usageCallback \in BOOLEAN : client = BedrockClient(usageCallback)
  /\ other = NoOther

CallbackSend ==
  /\ ops < MaxOps
  /\ stream.status # "active"
  /\ \E reply \in CallbackReplies : SendCall(<<StringItem("hi")>>, reply)

CallbackSendStreaming ==
  /\ ops < MaxOps
  /\ stream.status = "none"
  /\ \E startErr \in BOOLEAN : SendStreamingCall(<<StringItem("hi")>>, startErr)
  /\ ops' = ops + 1

CallbackDrain == Drain(CallbackEvents, MaxSessEvents)

NextCallback == CallbackSend \/ CallbackSendStreaming \/ CallbackDrain \/ StreamEnd

SpecCallback == InitCallback /\ [][NextCallback]_vars

(***************************************************************************)
(* Properties of Send and SendStreaming.                                   *)
(***************************************************************************)
HasKind(contents, k) == \E i \in 1..Len(contents) : contents[i].kind = k

\* a content list that request construction must refuse
Misuse(contents) ==
  \/ Len(contents) = 0
  \/ HasKind(contents, "other")
  \/ HasKind(contents, "string") /\ HasKind(contents, "result")

\* C1: when the backend call of a Send or SendStreaming with an accepted
\* content list fails, the history is the history before the call.
C1_RollbackOnBackendFailure ==
  (last.op # "none" /\ ~Misuse(last.contents) /\ last.err = "backend")
    => cs.history = last.before

\* C4: after successful Send calls only, starting from the empty history, no
\* two adjacent messages of the history have the same role.
C4_RolesAlternate ==
  \A i \in 1..(Len(cs.history) - 1) : cs.history[i].role # cs.history[i + 1].role

\* C5: a Send or SendStreaming with a misused content list fails, does not
\* invoke the backend and leaves the history as it was before the call.
C5_MisuseRejected ==
  (last.op # "none" /\ Misuse(last.contents))
    => /\ last.err # "none"
       /\ ~last.invoked
       /\ cs.history = last.before

\* an element of unsupported type after a valid tool result, on a history
\* that is not empty
C5_Witness ==
  /\ last.op = "SendStreaming"
  /\ last.contents = <<ResultItem("t0"), OtherItem>>
  /\ Len(last.before) > 0
  /\ last.err = "unsupportedContent"

\* the ids of the tool-call blocks of the first n messages of a history
ToolCallIds(h, n) ==
  UNION {{h[i].content[b].id :
            b \in {c \in 1..Len(h[i].content) : h[i].content[c].kind = "toolUse"}} :
         i \in 1..n}

\* a tool result of the contents answers no tool call of the history
Unmatched(contents, h) ==
  \E i \in 1..Len(contents) :
    contents[i].kind = "result" /\ contents[i].id \notin ToolCallIds(h, Len(h))

\* C13: a Send with a tool result whose call id is the id of no tool call
\* recorded in the history fails, does not invoke the backend and leaves the
\* history as it was; hence every tool-result block of the history carries
\* the id of a tool-call block of an earlier message.
C13_UnmatchedResultRejected ==
  /\ (last.op = "Send" /\ Unmatched(last.contents, last.before))
       => /\ last.err # "none"
          /\ ~last.invoked
          /\ cs.history = last.before
  /\ \A i \in 1..Len(cs.history) : \A b \in 1..Len(cs.history[i].content) :
       cs.history[i].content[b].kind = "toolResult"
         => cs.history[i].content[b].id \in ToolCallIds(cs.history, i - 1)

\* the names of the definitions that are not nil, in order
RECURSIVE NonNilNames(_)
NonNilNames(defs) ==
  IF Len(defs) = 0 THEN <<>>
  ELSE IF Head(defs).isNil THEN NonNilNames(Tail(defs))
  ELSE <<Head(defs).name>> \o NonNilNames(Tail(defs))

\* SetFunctionDefinitions returns no error and leaves the history alone
SetDefinitionsFrame ==
  last.op = "SetFunctionDefinitions"
    => last.err = "none" /\ cs.history = last.before

\* C14 as stated: after SetFunctionDefinitions, a request of Send or
\* SendStreaming carries a tool configuration with one tool for each
\* definition of the most recent call that is not nil, in order, and carries
\* none when that call passed an empty list; the call returns no error and
\* leaves the history unchanged.
C14_ToolConfigPerDefinition ==
  /\ (app.fn = "SetFunctionDefinitions" /\ req # NoRequest)
       => req[1].toolConfig =
            IF Len(app.arg) = 0 THEN <<>> ELSE <<NonNilNames(app.arg)>>
  /\ SetDefinitionsFrame

\* C14 amended: the request carries no tool configuration either when every
\* definition of the most recent call is nil.
C14_ToolConfigOfLastDefinitions ==
  /\ (app.fn = "SetFunctionDefinitions" /\ req # NoRequest)
       => req[1].toolConfig =
            IF Len(NonNilNames(app.arg)) = 0 THEN <<>> ELSE <<NonNilNames(app.arg)>>
  /\ SetDefinitionsFrame

\* a request built after a call that passed nil and a definition
C14_Witness ==
  /\ last.op = "SendStreaming"
  /\ req # NoRequest
  /\ app.fn = "SetFunctionDefinitions"
  /\ app.arg = <<NilDef, FunctionDefinition("bash")>>
  /\ req[1].toolConfig = << <<"bash">> >>

(***************************************************************************)
(* Properties of the streaming turn.                                       *)
(***************************************************************************)
\* the caller took every unit and the stream ended without error
Drained == stream.status = "done"

IsContentEv(e) ==
  e.type \in {"ContentBlockStart", "ContentBlockDelta", "ContentBlockStop"}

\* the turn completes once, after all its content
CompleteTurn(ev) ==
  \E m \in 1..Len(ev) :
    /\ ev[m] = MessageStopEv
    /\ \A k \in 1..Len(ev) : k # m => ev[k] # MessageStopEv
    /\ \A k \in (m + 1)..Len(ev) : ~IsContentEv(ev[k])

IsToolUnit(u) == ~u.err /\ Len(u.toolCalls) > 0
IsTextUnit(u) == ~u.err /\ Len(u.toolCalls) = 0 /\ Len(u.usage) = 0

AssistantCount(h) == Cardinality({i \in 1..Len(h) : h[i].role = "assistant"})

\* the messages the turn added after SendStreaming returned
NewMessages == SubSeq(cs.history, Len(stream.start) + 1, Len(cs.history))

\* C2: once an error-free stream with text, tool calls or both is drained,
\* the history holds exactly one assistant message more than when the
\* iteration started.
C2_OneAssistantMessage ==
  ( /\ Drained
    /\ CompleteTurn(stream.events)
    /\ \E k \in 1..Len(stream.units) :
         IsToolUnit(stream.units[k]) \/ stream.units[k].content # "" )
    => AssistantCount(cs.history) = AssistantCount(stream.start) + 1

\* C3: from the return of SendStreaming until the iterator is exhausted, and
\* for ever when the caller stops draining, the history is the history
\* before the SendStreaming call.
C3_AtomicCommit ==
  stream.status \in {"active", "stopped"} => cs.history = stream.before

RECURSIVE ConcatFrags(_, _, _)
\* the argument text of the fragments of events a..b, in arrival order
ConcatFrags(ev, a, b) ==
  IF a > b THEN <<>> ELSE ev[a].frag \o ConcatFrags(ev, a + 1, b)

\* the structured map of an argument text, empty when it is not an object
ArgsOfText(text) ==
  LET parsed == ParseJSON(text)
  IN  IF parsed.ok /\ parsed.isMap THEN parsed.args ELSE NoArgs

IsToolDeltaOf(e, i) ==
  e.type = "ContentBlockDelta" /\ e.kind = "toolUse" /\ e.idx = i

\* events o..n are the open of tool slot i, its argument deltas and its close
SlotRun(ev, o, n, i) ==
  /\ o < n
  /\ ev[o] = ToolStartEv(i)
  /\ ev[n] = StopEv(i)
  /\ \A k \in (o + 1)..(n - 1) : IsToolDeltaOf(ev[k], i)

\* C6: the arguments of the tool call emitted at the close of a slot are the
\* map parsed from the concatenation of the slot's fragments, and the tool
\* call committed to the history carries the same arguments.
C6_ArgumentsOfConcatenation ==
  \A k \in 1..Len(stream.units) : \A i \in ToolSlots :
    \A o \in 1..Len(stream.events) :
      LET u == stream.units[k]
          ev == stream.events
          expected == ArgsOfText(ConcatFrags(ev, o + 1, u.src - 1))
      IN  (IsToolUnit(u) /\ SlotRun(ev, o, u.src, i))
            => /\ u.toolCalls[1] = FunctionCall(ToolId(i), ToolName(i), expected)
               /\ (Drained /\ CompleteTurn(ev))
                    => \E j \in 1..Len(NewMessages) :
                         \E b \in 1..Len(NewMessages[j].content) :
                           NewMessages[j].content[b] =
                             ToolUseBlock(ToolId(i), ToolName(i), expected)

Positions(ev, e) == {k \in 1..Len(ev) : ev[k] = e}

\* both tool slots are opened, once each, before either is closed, and each
\* is closed once by its own close
Interleaved(ev) ==
  /\ \A i \in ToolSlots :
       /\ Cardinality(Positions(ev, ToolStartEv(i))) = 1
       /\ Cardinality(Positions(ev, StopEv(i))) = 1
  /\ \A i \in ToolSlots, j \in ToolSlots :
       \A o \in Positions(ev, ToolStartEv(i)), c \in Positions(ev, StopEv(j)) : o < c
  /\ Positions(ev, StopEv(TextSlot)) = {}

\* the argument text of slot i: its fragments in arrival order
RECURSIVE SlotText(_, _, _)
SlotText(ev, i, n) ==
  IF n = 0 THEN <<>>
  ELSE SlotText(ev, i, n - 1) \o (IF IsToolDeltaOf(ev[n], i) THEN ev[n].frag ELSE <<>>)

UnitsOfSlot(i) ==
  {k \in 1..Len(stream.units) :
     IsToolUnit(stream.units[k]) /\ stream.units[k].toolCalls[1].id = ToolId(i)}

\* C7: when two tool slots are open together and their deltas interleave,
\* each slot yields exactly one tool call, with its own id, name and
\* argument fragments.
C7_InterleavedSlots ==
  (Drained /\ Interleaved(stream.events))
    => \A i \in ToolSlots :
         /\ Cardinality(UnitsOfSlot(i)) = 1
         /\ \A k \in UnitsOfSlot(i) :
              stream.units[k].toolCalls[1] =
                FunctionCall(ToolId(i), ToolName(i),
                             ArgsOfText(SlotText(stream.events, i, Len(stream.events))))

\* the tool slot open after the first n events, closed only by its own
\* close: <<>> when none is open
RECURSIVE OpenSlot(_, _)
OpenSlot(ev, n) ==
  IF n = 0 THEN <<>>
  ELSE LET e == ev[n]
           prev == OpenSlot(ev, n - 1)
       IN  IF e.type = "ContentBlockStart" /\ e.kind = "toolUse" THEN <<e.idx>>
           ELSE IF e.type = "ContentBlockStop" /\ prev = <<e.idx>> THEN <<>>
           ELSE prev

\* the tool slots do not overlap: no slot opens, and no other block closes,
\* while a tool slot is open
NonOverlapping(ev) ==
  \A n \in 1..Len(ev) :
    LET prev == OpenSlot(ev, n - 1)
    IN  /\ (ev[n].type = "ContentBlockStart" /\ ev[n].kind = "toolUse") => prev = <<>>
        /\ (ev[n].type = "ContentBlockStop" /\ prev # <<>>) => prev = <<ev[n].idx>>

Delivery(kind, text, id, name, src) ==
  [kind |-> kind, text |-> text, id |-> id, name |-> name, src |-> src]

\* the text and tool-call units the first n events call for, in event order
RECURSIVE ExpectedUnits(_, _)
ExpectedUnits(ev, n) ==
  IF n = 0 THEN <<>>
  ELSE LET e == ev[n]
           prev == OpenSlot(ev, n - 1)
       IN  ExpectedUnits(ev, n - 1) \o
           ( IF e.type = "ContentBlockDelta" /\ e.kind = "text"
             THEN <<Delivery("text", e.text, "", "", n)>>
             ELSE IF e.type = "ContentBlockStop" /\ prev = <<e.idx>>
             THEN <<Delivery("tool", "", ToolId(e.idx), ToolName(e.idx), n)>>
             ELSE <<>> )

\* the text and tool-call units delivered, in delivery order
RECURSIVE DeliveredUnits(_)
DeliveredUnits(units) ==
  IF Len(units) = 0 THEN <<>>
  ELSE LET u == Head(units)
       IN  ( IF IsToolUnit(u)
             THEN <<Delivery("tool", "", u.toolCalls[1].id, u.toolCalls[1].name, u.src)>>
             ELSE IF IsTextUnit(u)
             THEN <<Delivery("text", u.content, "", "", u.src)>>
             ELSE <<>> )
           \o DeliveredUnits(Tail(units))

\* C8: for non-overlapping tool slots interleaved with text deltas, the
\* iterator delivers one tool call per closed slot and one text unit per
\* text delta, with the same text, in the order of the events.
C8_UnitOrder ==
  NonOverlapping(stream.events)
    => DeliveredUnits(stream.units) = ExpectedUnits(stream.events, Len(stream.events))

\* a drained stream of text, a tool slot with its close, and text again
C8_Witness ==
  /\ Drained
  /\ NonOverlapping(stream.events)
  /\ \E a \in 1..Len(stream.units), b \in 1..Len(stream.units),
        c \in 1..Len(stream.units) :
       /\ a < b /\ b < c
       /\ IsTextUnit(stream.units[a]) /\ stream.units[a].content # ""
       /\ IsToolUnit(stream.units[b])
       /\ IsTextUnit(stream.units[c])

\* slot i is opened once and its close never arrives
Orphaned(ev, i) ==
  /\ Cardinality(Positions(ev, ToolStartEv(i))) = 1
  /\ \A o \in Positions(ev, ToolStartEv(i)) :
       \A k \in (o + 1)..Len(ev) : ev[k] # StopEv(i)

\* C9: a tool slot that is opened and never closed yields no tool call, and
\* the history gets no tool-call block for it.
C9_OrphanDiscarded ==
  \A i \in ToolSlots :
    (stream.status \in {"done", "failed"} /\ Orphaned(stream.events, i))
      => /\ UnitsOfSlot(i) = {}
         /\ \A j \in 1..Len(NewMessages) :
              \A b \in 1..Len(NewMessages[j].content) :
                NewMessages[j].content[b].id # ToolId(i)

RECURSIVE DeliveredText(_)
\* the concatenation of the texts delivered, in delivery order
DeliveredText(units) ==
  IF Len(units) = 0 THEN ""
  ELSE (IF IsTextUnit(Head(units)) THEN Head(units).content ELSE "")
       \o DeliveredText(Tail(units))

RECURSIVE DeliveredCalls(_)
\* the tool calls delivered, in delivery order
DeliveredCalls(units) ==
  IF Len(units) = 0 THEN <<>>
  ELSE (IF IsToolUnit(Head(units)) THEN Head(units).toolCalls ELSE <<>>)
       \o DeliveredCalls(Tail(units))

\* the single assistant message the delivered units call for
ExpectedCommit(units) ==
  LET text == DeliveredText(units)
      blocks == (IF text # "" THEN <<TextBlock(text)>> ELSE <<>>)
                \o ToolUseBlocks(DeliveredCalls(units))
  IN  IF Len(blocks) = 0 THEN <<>> ELSE <<Message("assistant", blocks)>>

\* C10: after a full drain of an error-free stream the turn has committed a
\* single assistant message: the text block of the concatenated text deltas,
\* if not empty, followed by the tool-call blocks of the delivered tool calls.
C10_SingleAssistantMessage ==
  (Drained /\ CompleteTurn(stream.events))
    => NewMessages = ExpectedCommit(stream.units)

\* C11: when the event stream ends with an error after SendStreaming
\* returned, the error is the last unit delivered and the history is the
\* history before the SendStreaming call.
C11_RollbackOnStreamError ==
  stream.status = "failed"
    => /\ Len(stream.units) > 0
       /\ stream.units[Len(stream.units)].err
       /\ cs.history = stream.before

(***************************************************************************)
(* Properties of IsRetryableError.                                         *)
(***************************************************************************)
\* C15: the result of IsRetryableError is the one it gives for the same
\* error on every other session, whatever its history, function definitions
\* and model, and the call leaves the session as it was.
C15_ClassificationIsPure ==
  app.fn = "IsRetryableError"
    => /\ \A s \in RetrySessions : IsRetryableError(s, app.arg.err) = app.res
       /\ cs = app.arg.session

\* a retryable error classified on a session with a history and definitions
C15_Witness ==
  /\ app.fn = "IsRetryableError"
  /\ app.res = TRUE
  /\ Len(cs.history) > 0
  /\ Len(cs.functionDefs) > 0

\* C16: IsRetryableError is true for an overload error, and false for nil,
\* for a rejection error and for a cancellation error, wrapped or not.
C16_OverloadRetryable ==
  app.fn = "IsRetryableError"
    => LET err == app.arg.err
       IN  /\ err.class = "overload" => app.res = TRUE
           /\ (err.isNil \/ err.class \in {"rejection", "cancellation"})
                => app.res = FALSE

\* a throttling error wrapped by Send is retryable
C16_Witness ==
  /\ app.fn = "IsRetryableError"
  /\ app.arg.err \in {SendError(e) : e \in OverloadErrors}
  /\ app.res = TRUE

\* C17: IsRetryableError is true for a transport error.
C17_TransportRetryable ==
  (app.fn = "IsRetryableError" /\ app.arg.err.class = "transport")
    => app.res = TRUE

(***************************************************************************)
(* Properties of the usage conversion and of the options.                  *)
(***************************************************************************)
\* the payload is a token usage: a TokenUsage behind a pointer
IsTokenUsage(p) == p.kind = "tokenUsage" /\ ~p.isNilPtr

\* the count a field of the payload stands for: 0 when it is missing
CountOf(p) == IF p = <<>> THEN 0 ELSE p[1]

\* C18: convertAWSUsage never fails; it returns nil for a nil payload and for
\* a payload that is not a token usage, and for a token usage the Usage of
\* its three counts, a missing count being 0, with the model and provider
\* given.
C18_UsageConversion ==
  app.fn = "convertAWSUsage"
    => LET p == app.arg.awsUsage
       IN  /\ app.res.outcome # "panic"
           /\ ~IsTokenUsage(p) => app.res = NilUsage
           /\ IsTokenUsage(p)
                => app.res = Usage(CountOf(p.inputTokens), CountOf(p.outputTokens),
                                   CountOf(p.totalTokens), app.arg.model,
                                   app.arg.provider)

\* C19: UsageMetadata returns, for a raw usage that is a token usage, the
\* Usage of its counts with model and provider "bedrock" when empty, and
\* the raw usage itself otherwise.
C19_UsageMetadata ==
  app.fn = "UsageMetadata"
    => LET p == app.arg.usage
           model == IF app.arg.model = "" THEN "bedrock" ELSE app.arg.model
           provider == IF app.arg.provider = "" THEN "bedrock" ELSE app.arg.provider
       IN  /\ IsTokenUsage(p)
                => app.res = Usage(CountOf(p.inputTokens), CountOf(p.outputTokens),
                                   CountOf(p.totalTokens), model, provider)
           /\ ~IsTokenUsage(p) => app.res = RawUsage(p)

\* the value of a field of the configuration when it is set, of the
\* defaults otherwise
Chosen(configValue, zero, defaultValue) ==
  IF configValue # zero THEN configValue ELSE defaultValue

\* C20: each field of the merged options is that of the configuration when
\* set and that of the defaults otherwise; without a configuration the
\* merged options are the defaults; the defaults are left as they were.
C20_MergeWithClientOptions ==
  app.fn = "mergeWithClientOptions"
    => LET d == app.arg.defaults
           m == app.res.merged
       IN  /\ app.res.defaults = d
           /\ app.arg.inferenceConfig = <<>> => m = d
           /\ app.arg.inferenceConfig # <<>>
                => LET c == app.arg.inferenceConfig[1]
                   IN  /\ m.Model = Chosen(c.Model, "", d.Model)
                       /\ m.Region = Chosen(c.Region, "", d.Region)
                       /\ m.Temperature = Chosen(c.Temperature, 0, d.Temperature)
                       /\ m.MaxTokens = Chosen(c.MaxTokens, 0, d.MaxTokens)
                       /\ m.TopP = Chosen(c.TopP, 0, d.TopP)
                       /\ m.MaxRetries = Chosen(c.MaxRetries, 0, d.MaxRetries)

\* the shared defaults merged with a configuration that sets the model and
\* the retries only
C20_Witness ==
  /\ app.fn = "mergeWithClientOptions"
  /\ app.arg.defaults = DefaultOptions
  /\ app.arg.inferenceConfig = <<InferenceConfig("", "custom-model", 0, 0, 0, 5)>>
  /\ app.res.merged =
       BedrockOptions("us-west-2", "custom-model", 64000, 10, 90, 5)

(***************************************************************************)
(* Properties of the Nirmata chat.                                         *)
(***************************************************************************)
\* C12: when reading the response body fails after some chunks were
\* delivered, the error is the last unit delivered and the history holds no
\* assistant message of the partial text: it is the history at the return of
\* SendStreaming.
C12_NoPartialAssistantMessage ==
  (nc.iter.status = "failed" /\ Len(nc.iter.units) > 1)
    => /\ nc.iter.units[Len(nc.iter.units)].err
       /\ nc.history = nc.iter.start
(***************************************************************************)
(* Properties of the usage callback.                                       *)
(***************************************************************************)
\* the arguments the callback is to receive for the usage u of the backend
ExpectedInvocation(u, event, delivered) ==
  Invocation("bedrock", cs.model,
             [inputTokens |-> CountOf(u[1].inputTokens),
              outputTokens |-> CountOf(u[1].outputTokens),
              totalTokens |-> CountOf(u[1].totalTokens),
              model |-> cs.model, provider |-> "bedrock"],
             event, delivered)

\* a Send makes one call of the callback when it succeeds and the reply
\* carries a usage, and none otherwise
SendCallsBack ==
  \A reply \in CallbackReplies :
    SendCall(<<StringItem("hi")>>, reply) =>
      client'.calls =
        client.calls \o
          (IF client.usageCallback /\ last'.err = "none" /\ Len(reply.usage) > 0
           THEN <<ExpectedInvocation(reply.usage, 0, 0)>>
           ELSE <<>>)

\* the calls made while event number i of the stream was processed
CallsOfEvent(i) ==
  {k \in 1..Len(client.calls) : client.calls[k].event = i}

\* the units delivered while event number i of the stream was processed
UnitsOfEvent(i) ==
  {k \in 1..Len(stream.units) : stream.units[k].src = i}

\* every Metadata event with a usage has made one call, with the counts of
\* the event, when its usage unit was not delivered yet; no other event has
\* made a call
StreamCallsBack ==
  \A i \in 1..Len(stream.events) :
    LET e == stream.events[i]
    IN  IF client.usageCallback /\ e.type = "Metadata" /\ Len(e.usage) > 0
        THEN /\ Cardinality(CallsOfEvent(i)) = 1
             /\ Cardinality(UnitsOfEvent(i)) = 1
             /\ \A k \in CallsOfEvent(i), n \in UnitsOfEvent(i) :
                  /\ stream.units[n].usage = e.usage
                  /\ client.calls[k] = ExpectedInvocation(e.usage, i, n - 1)
        ELSE CallsOfEvent(i) = {}

\* C21: with a UsageCallback configured, a successful Send whose response
\* carries a usage calls it once with "bedrock", the model of the session
\* and the converted counts, a Send that fails or carries no usage never
\* calls it, and a streaming turn calls it once per Metadata event with a
\* usage, before the usage unit is delivered.
C21_UsageCallback == [][SendCallsBack]_vars /\ []StreamCallsBack

C21_Witness ==
  /\ client.usageCallback
  /\ last.op = "Send" /\ last.err = "none"
  /\ \E k \in 1..Len(client.calls) : client.calls[k].event = 0
  /\ \E i \in 1..Len(stream.events) :
       /\ stream.events[i].type = "Metadata"
       /\ stream.events[i].usage = PartialUsage
       /\ CallsOfEvent(i) # {}
       /\ UnitsOfEvent(i) # {}

(***************************************************************************)
(* Properties of the Nirmata request construction.                         *)
(***************************************************************************)
\* the renderings of the items of contents, each by the operator rendering
RECURSIVE Renderings(_, _)
Renderings(contents, rendering) ==
  IF Len(contents) = 0 THEN <<>>
  ELSE <<rendering[Head(contents)]>> \o Renderings(Tail(contents), rendering)

\* a string verbatim, a message of text type by its payload, any other value
\* by its default formatting
RenderingByKind ==
  [item \in ConvertItems |->
     IF item.kind = "string" THEN item.formatted
     ELSE IF item.kind = "message" /\ item.type = "text" /\ Len(item.payload) > 0
     THEN item.payload[1].text
     ELSE item.formatted]

\* as RenderingByKind, a message that is not of text type or has no payload
\* being rendered by the empty string
RenderingOfText ==
  [item \in ConvertItems |->
     IF item.kind = "message" /\ ~(item.type = "text" /\ Len(item.payload) > 0)
     THEN ""
     ELSE RenderingByKind[item]]

\* C22: for a non-empty list of contents convertContentsToMessage returns
\* one user message whose content is the renderings of the items in order
\* with one space between consecutive items: strings verbatim, text
\* messages by their payload, other values by their default formatting.
C22_RenderingsJoined ==
  app.fn = "convertContentsToMessage" /\ Len(app.arg) > 0
    => app.res = nirmataMessage("user", Join(Renderings(app.arg, RenderingByKind), " "))

\* C22 amended: as C22, a message that is not of text type, or has no
\* payload, being rendered by the empty string.
C22_TextRenderingsJoined ==
  app.fn = "convertContentsToMessage" /\ Len(app.arg) > 0
    => app.res = nirmataMessage("user", Join(Renderings(app.arg, RenderingOfText), " "))

C22_Witness ==
  /\ app.fn = "convertContentsToMessage"
  /\ app.arg = <<NString("hi"), NOtherMessage, NValue("42")>>
  /\ app.res.content = "hi  42"

\* the message Initialize keeps for msg
Kept(msg) ==
  /\ msg.source \in {"user", "model", "agent"}
  /\ msg.type = "text"
  /\ msg.payload # NilNPayload
  /\ msg.payload[1].text # ""

\* the history the claim gives for the system prompt and the messages
InitialHistory(systemPrompt, msgs) ==
  LET kept == SelectSeq(msgs, Kept)
  IN  (IF systemPrompt # "" THEN <<nirmataMessage("system", systemPrompt)>> ELSE <<>>)
      \o [k \in 1..Len(kept) |->
            nirmataMessage(IF kept[k].source = "user" THEN "user" ELSE "assistant",
                           kept[k].payload[1].text)]

\* after Initialize the history is that of the system prompt and the input
InitializeReplaces ==
  app.fn = "Initialize" => nc.history = InitialHistory(nc.systemPrompt, app.arg)

\* a second Initialize with the input of the first leaves the history as it is
InitializeTwice ==
  app.fn = "Initialize" /\ app'.fn = "Initialize" /\ app'.arg = app.arg
    => nc'.history = nc.history

\* C23: Initialize replaces the history by the system-prompt message, when
\* the prompt is not empty, followed in input order by one message for each
\* input of source user (role user) or model or agent (role assistant) that
\* is of text type with a non-empty payload; the other inputs are skipped,
\* and the result does not depend on the history before the call.
C23_InitializeReplacesHistory == []InitializeReplaces /\ [][InitializeTwice]_vars

C23_Witness ==
  /\ app.fn = "Initialize"
  /\ ops = 2
  /\ nc.systemPrompt # ""
  /\ app.arg = <<ApiMessage("user", "text", NPayload(TRUE, "")),
                 ApiMessage("agent", "text", NPayload(TRUE, "ok"))>>
  /\ Len(nc.history) = 2

(***************************************************************************)
(* Properties of the Nirmata Send and SendStreaming.                       *)
(***************************************************************************)
\* the text of a status
StatusText(statusCode) == IF statusCode = 401 THEN "401" ELSE "500"

\* the HTTP exchange of the last call failed
ExchangeFailed == nc.last.err \in {"transport", "status"}

\* C24: when the HTTP exchange of Send or SendStreaming fails, by a
\* transport error or a status other than 200 (an error with the text
\* "HTTP <status>"), the call returns an error and the history is as before
\* the call; when Send succeeds the history has grown by the user message
\* and the assistant reply, and the request held the history before the call
\* followed by that user message.
C24_NirmataSendHistory ==
  /\ ExchangeFailed
       => /\ nc.history = nc.last.before
          /\ nc.iter.status = "none"
          /\ nc.last.err = "status"
               => \E statusCode \in {401, 500} :
                    nc.last.apiError =
                      <<[statusCode |-> statusCode,
                         message |-> "HTTP " \o StatusText(statusCode)]>>
  /\ (nc.last.op = "Send" /\ nc.last.err = "none")
       => /\ Len(nc.history) = Len(nc.last.before) + 2
          /\ SubSeq(nc.history, 1, Len(nc.last.before)) = nc.last.before
          /\ nc.history[Len(nc.history) - 1].role = "user"
          /\ nc.history[Len(nc.history)].role = "assistant"
          /\ nc.last.request =
               <<Append(nc.last.before, nc.history[Len(nc.history) - 1])>>

C24_Witness ==
  /\ nc.last.op = "SendStreaming"
  /\ nc.last.err = "status"
  /\ Len(nc.history) = 3
  /\ Len(nc.last.request[1]) = 4

\* the units delivered are those of the lines scanned, in their order,
\* followed by the error when reading the body failed
UnitPerLine ==
  LET n == Len(nc.iter.lines)
  IN  /\ Len(nc.iter.units) = n + (IF nc.iter.status = "failed" THEN 1 ELSE 0)
      /\ \A k \in 1..n : nc.iter.units[k] = NirmataUnit(FALSE, nc.iter.lines[k])

\* the history a stream drained without error leaves
DrainedHistory ==
  LET text == Join(nc.iter.lines, "")
  IN  nc.last.before
      \o <<nc.iter.start[Len(nc.iter.start)]>>
      \o (IF text # "" THEN <<nirmataMessage("assistant", text)>> ELSE <<>>)

\* C25: the iterator of SendStreaming delivers one unit per line of the
\* response, in order, with the text of the line; once a stream that ends
\* without error is drained, the history is the one before the call
\* followed by the user message and by one assistant message of the
\* concatenated chunks, or by no assistant message when they are all empty.
C25_NirmataStreamUnits ==
  /\ UnitPerLine
  /\ nc.iter.status = "done"
       => /\ nc.iter.start[Len(nc.iter.start)].role = "user"
          /\ Len(nc.iter.start) = Len(nc.last.before) + 1
          /\ nc.history = DrainedHistory

C25_Witness ==
  /\ nc.iter.status = "done"
  /\ nc.iter.lines = <<"x", "y">>
  /\ nc.history[Len(nc.history)] = nirmataMessage("assistant", "xy")

(***************************************************************************)
(* Properties of NewNirmataClient.                                         *)
(***************************************************************************)
\* C26: NewNirmataClient, in either copy, fails with "NIRMATA_ENDPOINT or NIRMATA_BASE_URL
\* environment variable required" when neither variable is set, succeeds
\* with NIRMATA_BASE_URL as base URL when only that is set and with
\* NIRMATA_ENDPOINT when both are set, whether or not an API key is set, and
\* the API key of the client is the value of NIRMATA_API_KEY.
C26_ClientConfiguration ==
  app.fn \in {"NewNirmataClient", "NewNirmataClientRequiringKey"}
    => LET env == app.arg
           res == app.res
       IN  /\ (env.NIRMATA_ENDPOINT = "" /\ env.NIRMATA_BASE_URL = "")
                => res.err = "NIRMATA_ENDPOINT or NIRMATA_BASE_URL environment variable required"
           /\ (env.NIRMATA_ENDPOINT = "" /\ env.NIRMATA_BASE_URL \notin {"", BadURL})
                => res.err = "" /\ res.client[1].baseURL = env.NIRMATA_BASE_URL
           /\ env.NIRMATA_ENDPOINT \notin {"", BadURL}
                => res.err = "" /\ res.client[1].baseURL = env.NIRMATA_ENDPOINT
           /\ res.err = "" => res.client[1].apiKey = env.NIRMATA_API_KEY

(***************************************************************************)
(* Properties of the release of the stream.                                *)
(***************************************************************************)
\* the caller is through with the iterator
Left(status) == status \in {"done", "stopped", "failed", "abandoned"}

\* C27: after a successful SendStreaming, of a Bedrock session or of a
\* Nirmata chat, the stream or the response body is closed exactly once on
\* every exit path: exhaustion, the caller stopping early, a stream error,
\* the caller never iterating, and the caller iterating more than once.
C27_ClosedExactlyOnce ==
  /\ stream.closed <= 1
  /\ nc.iter.closed <= 1
  /\ Left(stream.status) => stream.closed = 1
  /\ Left(nc.iter.status) => nc.iter.closed = 1

(***************************************************************************)
(* Properties of two sessions of one client.                               *)
(***************************************************************************)
\* the texts of the user messages of a history
UserTexts(history) ==
  {history[i].content[j].text :
     i \in {m \in 1..Len(history) : history[m].role = "user"},
     j \in {1}}

\* the names of the definitions of a session
DefinedNames(session) ==
  {session.functionDefs[i].name : i \in 1..Len(session.functionDefs)}

\* no step changes both sessions: a step of one session leaves the history,
\* the definitions, the model and the iterator of the other as they were
OneSessionPerStep ==
  other' # other => cs' = cs /\ stream' = stream

\* each session holds what its own worker sent and defined, and nothing of
\* the other's
OwnContents ==
  /\ UserTexts(cs.history) \subseteq {"hi"}
  /\ UserTexts(other[1].cs.history) \subseteq {"yo"}
  /\ DefinedNames(cs) \subseteq {"kubectl"}
  /\ DefinedNames(other[1].cs) \subseteq {"bash"}
  /\ cs.model = DefaultModel /\ other[1].cs.model = DefaultModel

\* C28: of two sessions started from one BedrockClient and driven by
\* different workers, under every interleaving of their Send,
\* SendStreaming, drain and SetFunctionDefinitions steps, no step of one
\* changes the history or the function definitions of the other, so each
\* holds what it would hold had it run alone.
C28_SessionIsolation == [][OneSessionPerStep]_vars /\ []OwnContents

C28_Witness ==
  /\ Len(cs.history) = 2
  /\ Len(other[1].cs.history) = 1
  /\ other[1].stream.status = "active"
  /\ Len(other[1].stream.events) = 1
  /\ DefinedNames(cs) = {"kubectl"}
  /\ DefinedNames(other[1].cs) = {"bash"}

(***************************************************************************)
(* Properties of the stored messages.                                      *)
(***************************************************************************)
\* C29: in every state reached through Send, SendStreaming, with any
\* draining, and SetFunctionDefinitions, every message of the history has
\* at least one content block and no text block of the history is the
\* empty string: a message that would be empty is not stored.
C29_NoEmptyMessage ==
  \A i \in 1..Len(cs.history) :
    /\ Len(cs.history[i].content) >= 1
    /\ \A j \in 1..Len(cs.history[i].content) :
         cs.history[i].content[j].kind = "text" => cs.history[i].content[j].text # ""

\* a streaming turn of an empty string and an empty text has stored nothing,
\* after a Send whose empty reply was not stored either
C29_Witness ==
  /\ ops = 2
  /\ last.op = "SendStreaming" /\ last.err = "none"
  /\ last.contents = <<StringItem("")>>
  /\ stream.status = "done"
  /\ Len(stream.events) = 2
  /\ stream.events[1] = TextDeltaEv("")
  /\ stream.events[2] = MessageStopEv
  /\ cs.history = <<Message("user", <<TextBlock("hi")>>)>>

\* C30: no tool-use block of the history has an empty id: a tool-use block
\* that a reply or a streamed block start brings without an id is not stored.
C30_NoEmptyToolId ==
  \A i \in 1..Len(cs.history) :
    \A j \in 1..Len(cs.history[i].content) :
      cs.history[i].content[j].kind = "toolUse" => cs.history[i].content[j].id # ""

(***************************************************************************)
(* Properties of the units of one streaming turn.                          *)
(***************************************************************************)
\* C31: an event of none of the kinds the iterator knows ends the stream:
\* once such an event is consumed the last unit delivered is an error that
\* comes from it, and no unit comes from a later event.
C31_UnknownEventFatal ==
  \A k \in 1..Len(stream.events) :
    stream.events[k] = UnknownEv =>
      /\ stream.status # "active"
      /\ Len(stream.units) > 0
      /\ stream.units[Len(stream.units)].err
      /\ stream.units[Len(stream.units)].src = k
      /\ \A j \in 1..Len(stream.units) : stream.units[j].src <= k

\* events o..n are a run of tool slot i whose argument text, the
\* concatenation of its fragments, is empty or is not a JSON object
DegradedRun(ev, o, n, i) ==
  /\ SlotRun(ev, o, n, i)
  /\ LET parsed == ParseJSON(ConcatFrags(ev, o + 1, n - 1))
     IN  ~(parsed.ok /\ parsed.isMap)

\* C32: when a tool slot closes and the concatenation of its fragments is
\* empty or does not parse as an object, the close delivers exactly one
\* unit, the tool call of the slot's id and name with the empty arguments
\* map, and no error.
C32_DegradedArguments ==
  \A i \in ToolSlots :
    \A o \in 1..Len(stream.events), n \in 1..Len(stream.events) :
      DegradedRun(stream.events, o, n, i)
        => /\ Cardinality({k \in 1..Len(stream.units) : stream.units[k].src = n}) = 1
           /\ \A k \in 1..Len(stream.units) :
                stream.units[k].src = n
                  => stream.units[k] =
                       Unit(FALSE, "",
                            <<FunctionCall(ToolId(i), ToolName(i), NoArgs)>>,
                            NoUsage, n)

\* C33: a tool call is delivered only while the close of its own slot is
\* consumed, and the close of another slot that arrives while a tool slot is
\* open delivers no unit.
C33_OwnCloseOnly ==
  /\ \A k \in 1..Len(stream.units) :
       IsToolUnit(stream.units[k])
         => \E i \in ToolSlots :
              /\ stream.units[k].toolCalls[1].id = ToolId(i)
              /\ stream.units[k].src \in 1..Len(stream.events)
              /\ stream.events[stream.units[k].src] = StopEv(i)
  /\ \A n \in 1..Len(stream.events) :
       LET prev == OpenSlot(stream.events, n - 1)
       IN  ( /\ stream.events[n].type = "ContentBlockStop"
             /\ prev # <<>>
             /\ prev # <<stream.events[n].idx>> )
             => \A k \in 1..Len(stream.units) : stream.units[k].src # n

IsUsageUnit(u) == ~u.err /\ Len(u.usage) > 0

UsageUnits == {k \in 1..Len(stream.units) : IsUsageUnit(stream.units[k])}

\* C34: a usage unit is delivered if and only if a Metadata event with usage
\* was consumed, at most once, and no text, tool-call or usage unit is
\* delivered after it.
C34_UsageUnitLast ==
  /\ (UsageUnits # {})
       <=> \E n \in 1..Len(stream.events) :
             stream.events[n].type = "Metadata" /\ Len(stream.events[n].usage) > 0
  /\ Cardinality(UsageUnits) <= 1
  /\ \A k \in UsageUnits :
       \A j \in (k + 1)..Len(stream.units) : stream.units[j].err

(***************************************************************************)
(* Properties of the user message of a call.                               *)
(***************************************************************************)
\* the tool-result blocks of a list of tool results, in argument order
ResultBlocks(contents) ==
  [i \in 1..Len(contents) |-> ToolResultBlock(contents[i].id)]

C36_RequestHasNewUserMessage ==
  (last.op \in {"Send", "SendStreaming"} /\ last.invoked)
    => /\ Len(req) = 1
       /\ Len(req[1].messages) = Len(last.before) + 1
       /\ SubSeq(req[1].messages, 1, Len(last.before)) = last.before
       /\ req[1].messages[Len(req[1].messages)].role = "user"

(***************************************************************************)
(* Properties of the order of the turns in the history.                    *)
(***************************************************************************)
\* the user message of the turn that produced assistant message m: the
\* reply of a Send is the text "a", the text of a stream is made of "x"
UserMessageOf(m) ==
  Message("user", <<TextBlock(IF m.content[1].text = "a" THEN "q" ELSE "s")>>)

\* C37: whatever the interleaving of SendStreaming, draining and Send by one
\* caller, every assistant message of the history comes immediately after
\* the user message of the turn that produced it.
C37_TurnsNotInterleaved ==
  \A j \in 1..Len(cs.history) :
    cs.history[j].role = "assistant"
      => /\ j > 1
         /\ cs.history[j - 1] = UserMessageOf(cs.history[j])

(***************************************************************************)
(* Properties of the session StartChat returns.                            *)
(***************************************************************************)
\* C38: whatever the requested model and the configuration of the client,
\* the model of the session StartChat returns is accepted by
\* isModelSupported, no Send or SendStreaming on the session fails with the
\* unsupported-model error, and the session starts with no history and no
\* function definitions.
C38_StartChatModelSupported ==
  app.fn = "StartChat"
    => /\ isModelSupported(cs.model)
       /\ last.err # "unsupportedModel"
       /\ ops = 0 => (cs.history = <<>> /\ cs.functionDefs = <<>>)

(***************************************************************************)
(* Properties of the history of a Nirmata chat.                            *)
(***************************************************************************)
\* C39: in every state reached through StartChat, Initialize, Send and
\* SendStreaming, with any draining, the first message of the history is
\* the system message of the chat's system prompt if and only if the prompt
\* is not empty, and no later message has the role system.
C39_SystemMessageFirst ==
  /\ nc.systemPrompt # ""
       => /\ Len(nc.history) > 0
          /\ nc.history[1] = nirmataMessage("system", nc.systemPrompt)
  /\ nc.systemPrompt = ""
       => (Len(nc.history) > 0 => nc.history[1].role # "system")
  /\ \A i \in 2..Len(nc.history) : nc.history[i].role # "system"

\* a chat with a system prompt was initialized with two messages and a Send
\* on it succeeded
C39_Witness ==
  /\ app.fn = "Initialize"
  /\ nc.systemPrompt = "sys"
  /\ nc.last.op = "Send" /\ nc.last.err = "none"
  /\ Len(nc.last.before) = 3
  /\ Len(nc.history) = 5
  /\ nc.history[1] = nirmataMessage("system", "sys")

(***************************************************************************)
(* Properties of the streaming that keeps the partial tool calls in a map. *)
(***************************************************************************)
\* events o and n are the open and the close of one run of tool slot i
SlotOpenClose(ev, o, n, i) ==
  /\ o < n
  /\ ev[o] = ToolStartEv(i)
  /\ ev[n] = StopEv(i)
  /\ \A k \in (o + 1)..(n - 1) : ev[k] # ToolStartEv(i) /\ ev[k] # StopEv(i)

RECURSIVE SlotFrags(_, _, _, _)
\* the argument text of slot i in the events a..b: its fragments in
\* arrival order
SlotFrags(ev, i, a, b) ==
  IF a > b THEN <<>>
  ELSE (IF IsToolDeltaOf(ev[a], i) THEN ev[a].frag ELSE <<>>)
       \o SlotFrags(ev, i, a + 1, b)

\* C40: whatever the interleaving of opens, deltas and closes over the
\* indices, the close of a tool slot yields exactly one unit, whose function
\* call has the id and the name of the slot and the arguments parsed from
\* the concatenation of the slot's fragments, and removes the entry of the
\* slot; a slot still open when the stream ends yields no unit and no
\* tool-use block in the history.
C40_SlotMapToolCalls ==
  /\ \A i \in ToolSlots :
       \A o \in 1..Len(stream.events), n \in 1..Len(stream.events) :
         SlotOpenClose(stream.events, o, n, i)
           => /\ Cardinality({k \in 1..Len(stream.units) :
                                stream.units[k].src = n}) = 1
              /\ \A k \in 1..Len(stream.units) :
                   stream.units[k].src = n
                     => /\ ~stream.units[k].err
                        /\ Len(stream.units[k].toolUses) = 1
                        /\ AsFunctionCalls(stream.units[k].toolUses[1]) =
                             FunctionCall(ToolId(i), ToolName(i),
                                          ArgsOfText(SlotFrags(stream.events, i,
                                                               o + 1, n - 1)))
              /\ (n = Len(stream.events) /\ stream.status = "active")
                   => i \notin DOMAIN stream.partialTools
  /\ \A i \in ToolSlots :
       (stream.status \in {"done", "failed"} /\ Orphaned(stream.events, i))
         => /\ \A k \in 1..Len(stream.units) :
                 \A t \in 1..Len(stream.units[k].toolUses) :
                   stream.units[k].toolUses[t].id # ToolId(i)
            /\ \A j \in 1..Len(NewMessages) :
                 \A b \in 1..Len(NewMessages[j].content) :
                   NewMessages[j].content[b].id # ToolId(i)

====
